---- MODULE Spec2Model ----
(***************************************************************************)
(* A model of qlog (qlog.hpp): the five severity loggers, the per-severity *)
(* registry m_loggers, the global log level, and the receiver temporaries  *)
(* that drive the prepend / append decoration of one statement             *)
(*     logger << t1 << ... << tn;                                          *)
(* A statement is executed one operator call at a time.  The temporaries   *)
(* of a statement are destroyed, in reverse order of construction, at the  *)
(* end of the full expression (EndStatement).  A returned prvalue is       *)
(* constructed in place (copy elision): each operator<< adds one receiver. *)
(*                                                                         *)
(* Spec      the five static loggers, every threshold, one decorated level *)
(* SpecDecor one severity with a second, locally defined logger object and *)
(*           every prepend / append text                                   *)
(* SpecCopy  the error logger, with statements whose receivers are copied  *)
(* SpecAll   the global set_output and whole statements, one after another *)
(* SpecReg   objects of two severities come and go; the static member      *)
(*           functions are called on registries that may be empty          *)
(* SpecColor   statements with a color token                               *)
(* SpecThreads two threads that stream into the same logger                *)
(* SpecLife    construction, copy, operator() and destruction of loggers   *)
(* SpecCall    whole statements with and without operator()                *)
(* SpecEndl    statements with a std::endl in the middle                   *)
(* SpecQdii    the revision qdiilog.hpp (struct Logger : std::ostream)     *)
(* SpecImpl    the revision with LoggerImplementation and its wrappers     *)
(* SpecAttr    statements with color, underline and blink tokens           *)
(* SpecRace    two threads that run a statement with operator()            *)
(* SpecQ3      the revision qdiilog3.hpp (setters act on one object)       *)
(* SpecU2      the Logger of the header embedded in unittests2.cpp         *)
(***************************************************************************)
EXTENDS Integers, Sequences, FiniteSets, TLC

(* ------------------------------ bounds --------------------------------- *)
\* number of tokens of one statement
MaxTokens == 2
\* a run is followed while the streams hold no more characters than this
MaxPending == 0
\* a receiver is copied while no more than this many await their destructor
MaxCopies == 1
\* whole statements are run while the streams hold no more characters than this
MaxWritten == 1
\* number of statements each thread runs
MaxIter == 2

(* --------------------------- namespace loglevel ------------------------ *)
disabled == 0
debug == 1
trace == 2
info == 3
warning == 4
error == 5

Levels == {debug, trace, info, warning, error}
LogLevels == {disabled} \cup Levels

\* logger< level > can be instantiated for any unsigned level: one more, of
\* which the library defines no object
custom == error + 1
AllLevels == Levels \cup {custom}

(* ------------------------------ data ----------------------------------- *)
\* std::ostream objects a logger can be pointed at; NoSink is the null pointer
Sinks == {"A", "B"}
NoSink == "null"

\* std::cout, and all the streams of the program
cout == "cout"
Streams == Sinks \cup {cout}

\* const char * texts handed to prepend() / append(); NullTxt is the null pointer
Texts == {"", "a", "b"}
NullTxt == "NULL"

chars_empty_visible(p) == IF p = NullTxt THEN << >> ELSE << p >>

\* the characters operator<< writes for a text
Chars(p) == IF p = NullTxt \/ p = "" THEN << >> ELSE << p >>

\* values streamed into a logger, and the std::endl manipulator
Values == {"1", "2"}
endl == "endl"

\* the characters one token adds to a stream
TokChars(t) == IF t = endl THEN << "\n" >> ELSE << t >>

\* the characters of a sequence of tokens
RECURSIVE Flat(_)
Flat(ts) == IF ts = << >> THEN << >> ELSE TokChars(Head(ts)) \o Flat(Tail(ts))

\* logger objects: the five static loggers (the object of level l is object l),
\* one logger the program defines locally, and the temporary operator() returns
Statics == Levels
Local == error + 1
Tmp == error + 2
\* the temporary operator() returns in a second thread
Tmp2 == error + 3
Inst == Statics \cup {Local, Tmp, Tmp2}

\* the threads that log, and a thread that has not streamed anything
Threads == {1, 2}
NoThread == [n |-> 0, it |-> 0]

\* storage of a logger that is not alive
Dead == [live |-> FALSE, level |-> 0, m_disabled |-> FALSE,
         m_output |-> NoSink, m_prepend |-> NullTxt, m_append |-> NullTxt]

VARIABLES
    loglevel,   \* settings::loglevel
    obj,        \* the logger objects, by identity
    m_loggers,  \* per level: the registry pointer and its vector
    sink,       \* the characters written so far to each stream
    pc,         \* position in the current statement
    cur,        \* the logger object the statement streams into
    orig,       \* the logger object named in the statement
    cond,       \* "none", or the argument given to operator()
    recv,       \* the receiver temporaries of the statement, oldest first
    toks,       \* the tokens streamed so far
    base,       \* the streams' contents when the statement began
    last,       \* the configuration call made last, if no statement followed it
    thr         \* per thread: tokens of its statement streamed, statements run

vars == << loglevel, obj, m_loggers, sink, pc, cur, orig, cond, recv, toks,
           base, last, thr >>

stmtvars == << pc, cur, orig, cond, recv, toks, base, thr >>

NoCall == [op |-> "none", lvl |-> disabled, arg |-> NullTxt, old |-> NullTxt]

(* ---------------------------- struct logger ---------------------------- *)
\* logger::logger( bool _disabled )
logger_ctor(l, d) ==
    [live |-> TRUE, level |-> l, m_disabled |-> d,
     m_output |-> NoSink, m_prepend |-> NullTxt, m_append |-> NullTxt]

\* logger::logger( const logger & )
logger_copy(o) ==
    [live |-> TRUE, level |-> o.level, m_disabled |-> o.m_disabled,
     m_output |-> o.m_output, m_prepend |-> o.m_prepend, m_append |-> o.m_append]

get_loglevel == loglevel

can_log_strict(o) ==
    ( o.level > get_loglevel ) /\ o.m_output # NoSink /\ ~o.m_disabled

\* logger::can_log
can_log(o) ==
    ( o.level >= get_loglevel ) /\ o.m_output # NoSink /\ ~o.m_disabled

Write(snk, s, chars) == [snk EXCEPT ![s] = @ \o chars]

treat_always_prepend(o, snk, msg, first_part) ==
    IF can_log(o)
    THEN Write(snk, o.m_output, Chars(o.m_prepend) \o TokChars(msg))
    ELSE snk

\* logger::treat
logger_treat(o, snk, msg, first_part) ==
    IF can_log(o)
    THEN Write(snk, o.m_output,
               (IF first_part /\ o.m_prepend # NullTxt
                THEN Chars(o.m_prepend) ELSE << >>) \o TokChars(msg))
    ELSE snk

signal_end_twice(o, snk) ==
    IF can_log(o) /\ o.m_append # NullTxt
    THEN Write(snk, o.m_output, Chars(o.m_append) \o Chars(o.m_append))
    ELSE snk

signal_end_unchecked(o, snk) ==
    IF o.m_output # NoSink /\ o.m_append # NullTxt
    THEN Write(snk, o.m_output, Chars(o.m_append))
    ELSE snk

\* logger::signal_end
logger_signal_end(o, snk) ==
    IF can_log(o) /\ o.m_append # NullTxt
    THEN Write(snk, o.m_output, Chars(o.m_append))
    ELSE snk

signal_no_prepend(o, snk, first_message) ==
    IF can_log(o) THEN Write(snk, o.m_output, TokChars(endl)) ELSE snk

\* logger::signal
logger_signal(o, snk, first_message) ==
    IF can_log(o)
    THEN Write(snk, o.m_output,
               (IF first_message /\ o.m_prepend # NullTxt
                THEN Chars(o.m_prepend) ELSE << >>) \o TokChars(endl))
    ELSE snk

(* ----------------------------- the registry ---------------------------- *)
NullVec == [alloc |-> FALSE, vec |-> << >>]

\* logger::register_me
register_me(regs, l, i) ==
    [regs EXCEPT ![l] = [alloc |-> TRUE, vec |-> Append(@.vec, i)]]

RemoveAt(s, k) == SubSeq(s, 1, k - 1) \o SubSeq(s, k + 1, Len(s))

unregister_me_keeps_vector(regs, l, i) ==
    LET v == regs[l].vec
        k == CHOOSE n \in 1..Len(v) : v[n] = i /\ \A m \in 1..(n - 1) : v[m] # i
    IN  [regs EXCEPT ![l] = [alloc |-> TRUE, vec |-> RemoveAt(v, k)]]

\* logger::unregister_me, for an object that is registered
unregister_me(regs, l, i) ==
    LET v == regs[l].vec
        k == CHOOSE n \in 1..Len(v) : v[n] = i /\ \A m \in 1..(n - 1) : v[m] # i
        w == RemoveAt(v, k)
    IN  [regs EXCEPT ![l] = IF w = << >> THEN NullVec
                            ELSE [alloc |-> TRUE, vec |-> w]]

Range(s) == {s[k] : k \in 1..Len(s)}

change_output_first_only(objs, regs, l, s) ==
    [i \in Inst |-> IF regs[l].vec # << >> /\ i = regs[l].vec[1]
                    THEN [objs[i] EXCEPT !.m_output = s] ELSE objs[i]]

\* logger::set_all_outputs
set_all_outputs(objs, regs, l, s) ==
    [i \in Inst |-> IF i \in Range(regs[l].vec)
                    THEN [objs[i] EXCEPT !.m_output = s] ELSE objs[i]]

prepend_self_only(objs, regs, l, t) ==
    [i \in Inst |-> IF regs[l].vec # << >> /\ i = regs[l].vec[Len(regs[l].vec)]
                    THEN [objs[i] EXCEPT !.m_prepend = t] ELSE objs[i]]

\* logger::prepend_all
prepend_all(objs, regs, l, t) ==
    [i \in Inst |-> IF i \in Range(regs[l].vec)
                    THEN [objs[i] EXCEPT !.m_prepend = t] ELSE objs[i]]

append_all_levels(objs, regs, l, t) ==
    [i \in Inst |-> IF objs[i].live
                    THEN [objs[i] EXCEPT !.m_append = t] ELSE objs[i]]

\* logger::append_all
append_all(objs, regs, l, t) ==
    [i \in Inst |-> IF i \in Range(regs[l].vec)
                    THEN [objs[i] EXCEPT !.m_append = t] ELSE objs[i]]

(* --------------------------- struct receiver --------------------------- *)
receiver_ctor_treated == [m_treated |-> TRUE, m_muted |-> FALSE]

\* receiver::receiver( const logger *, bool _muted = false )
receiver_ctor == [m_treated |-> FALSE, m_muted |-> FALSE]

receiver_copy_keeps_flag(r) == [m_treated |-> r.m_treated, m_muted |-> r.m_muted]

\* receiver::receiver( const receiver & )
receiver_copy(r) == [m_treated |-> FALSE, m_muted |-> r.m_muted]

\* receiver::treat: the receiver it is called on, afterwards
receiver_treat_mark(r) == [r EXCEPT !.m_treated = TRUE]

receiver_signal_no_mark(r) == r

\* receiver::signal: the receiver it is called on, afterwards
receiver_signal_mark(r) == [r EXCEPT !.m_treated = TRUE]

(* ------------------- the operators of one statement -------------------- *)
(* Each takes the logger object o the statement streams into and gives the *)
(* streams and the statement's receiver temporaries (oldest first) after   *)
(* the call.                                                               *)

\* operator<<( const logger &, const T & ):
\*     return receiver( &_logger ).treat( _message, true );
shift_logger_value(o, snk, v) ==
    [snk  |-> logger_treat(o, snk, v, TRUE),
     recv |-> << receiver_treat_mark(receiver_ctor),
                 receiver_copy(receiver_treat_mark(receiver_ctor)) >>]

\* operator<<( const logger &, standard_endline ):
\*     _logger.signal( _func, true ); return receiver( &_logger );
shift_logger_endl(o, snk) ==
    [snk  |-> logger_signal(o, snk, TRUE),
     recv |-> << receiver_ctor >>]

shift_receiver_value_drops(o, snk, rs, v) ==
    LET n == Len(rs)
    IN  [snk  |-> snk,
         recv |-> Append([rs EXCEPT ![n] = receiver_treat_mark(rs[n])],
                         receiver_copy(receiver_treat_mark(rs[n])))]

\* operator<<( const receiver &, const T & ) on the youngest receiver:
\*     return _receiver.treat( _message, false );
shift_receiver_value(o, snk, rs, v) ==
    LET n == Len(rs)
    IN  [snk  |-> IF ~rs[n].m_muted THEN logger_treat(o, snk, v, FALSE) ELSE snk,
         recv |-> Append([rs EXCEPT ![n] = receiver_treat_mark(rs[n])],
                         receiver_copy(receiver_treat_mark(rs[n])))]

shift_receiver_endl_ends(o, snk, rs) ==
    LET n == Len(rs)
    IN  [snk  |-> IF ~rs[n].m_muted
                  THEN logger_signal_end(o, logger_signal(o, snk, FALSE)) ELSE snk,
         recv |-> Append([rs EXCEPT ![n] = receiver_signal_mark(rs[n])],
                         receiver_copy(receiver_signal_mark(rs[n])))]

\* operator<<( const receiver &, standard_endline ) on the youngest receiver:
\*     _recv.signal( _func ); return _recv;
shift_receiver_endl(o, snk, rs) ==
    LET n == Len(rs)
    IN  [snk  |-> IF ~rs[n].m_muted THEN logger_signal(o, snk, FALSE) ELSE snk,
         recv |-> Append([rs EXCEPT ![n] = receiver_signal_mark(rs[n])],
                         receiver_copy(receiver_signal_mark(rs[n])))]

\* receiver::~receiver for the temporaries rs, the youngest first
RECURSIVE DestroyReceivers(_, _, _)
DestroyReceivers(rs, o, snk) ==
    IF rs = << >> THEN snk
    ELSE LET n == Len(rs)
         IN  DestroyReceivers(SubSeq(rs, 1, n - 1), o,
                 IF ~rs[n].m_treated THEN logger_signal_end(o, snk) ELSE snk)

(* ------------------------------- Init ---------------------------------- *)
\* the five static loggers have been constructed, nothing is configured
Init ==
    /\ loglevel = error
    /\ obj = [i \in Inst |-> IF i \in Statics THEN logger_ctor(i, FALSE) ELSE Dead]
    /\ m_loggers = [l \in AllLevels |-> IF l \in Levels
                                         THEN [alloc |-> TRUE, vec |-> << l >>]
                                         ELSE NullVec]
    /\ sink = [s \in Streams |-> << >>]
    /\ pc = "idle"
    /\ cur = disabled
    /\ orig = disabled
    /\ cond = "none"
    /\ recv = << >>
    /\ toks = << >>
    /\ base = [s \in Streams |-> << >>]
    /\ last = NoCall
    /\ thr = [t \in Threads |-> NoThread]

\* the objects the program can name: the temporary is not one of them
Named == {i \in Statics \cup {Local} : obj[i].live}

\* the program is between two statements; a run is followed no further once
\* the streams hold more than MaxPending characters
Between == pc = "idle" /\ Len(sink["A"]) + Len(sink["B"]) <= MaxPending

(* ------------------------- configuration calls ------------------------- *)
set_loglevel_keeps(l) ==
    /\ Between
    /\ loglevel' = loglevel
    /\ last' = [NoCall EXCEPT !.op = "set_loglevel", !.lvl = l]
    /\ UNCHANGED << obj, m_loggers, sink, stmtvars >>

\* set_loglevel( level )
SetLoglevel(l) ==
    /\ Between
    /\ loglevel' = l
    /\ last' = [NoCall EXCEPT !.op = "set_loglevel", !.lvl = l]
    /\ UNCHANGED << obj, m_loggers, sink, stmtvars >>

set_output_skips_debug(s) ==
    /\ Between
    /\ obj' = set_all_outputs(set_all_outputs(set_all_outputs(
                 set_all_outputs(obj, m_loggers, trace, s), m_loggers, info, s),
                 m_loggers, warning, s), m_loggers, error, s)
    /\ last' = [NoCall EXCEPT !.op = "set_output_all", !.arg = s]
    /\ UNCHANGED << loglevel, m_loggers, sink, stmtvars >>

\* the global set_output( stream )
SetOutputAll(s) ==
    /\ Between
    /\ obj' = set_all_outputs(set_all_outputs(set_all_outputs(set_all_outputs(
                 set_all_outputs(obj, m_loggers, debug, s),
                 m_loggers, trace, s), m_loggers, info, s),
                 m_loggers, warning, s), m_loggers, error, s)
    /\ last' = [NoCall EXCEPT !.op = "set_output_all", !.arg = s]
    /\ UNCHANGED << loglevel, m_loggers, sink, stmtvars >>

\* logger::set_output( stream ) on object i
SetOutput(i, s) ==
    /\ Between /\ i \in Named
    /\ obj' = set_all_outputs(obj, m_loggers, obj[i].level, s)
    /\ last' = [op |-> "set_output", lvl |-> obj[i].level, arg |-> s,
                old |-> obj[i].m_output]
    /\ UNCHANGED << loglevel, m_loggers, sink, stmtvars >>

\* logger::prepend( text ) on object i
Prepend(i, t) ==
    /\ Between /\ i \in Named
    /\ obj' = prepend_all(obj, m_loggers, obj[i].level, t)
    /\ last' = [op |-> "prepend", lvl |-> obj[i].level, arg |-> t,
                old |-> obj[i].m_prepend]
    /\ UNCHANGED << loglevel, m_loggers, sink, stmtvars >>

\* logger::append( text ) on object i
AppendTxt(i, t) ==
    /\ Between /\ i \in Named
    /\ obj' = append_all(obj, m_loggers, obj[i].level, t)
    /\ last' = [op |-> "append", lvl |-> obj[i].level, arg |-> t,
                old |-> obj[i].m_append]
    /\ UNCHANGED << loglevel, m_loggers, sink, stmtvars >>

(* ---------------------- construction, destruction ---------------------- *)
construct_inherits(l, d) ==
    /\ Between /\ ~obj[Local].live
    /\ obj' = [obj EXCEPT ![Local] =
                  [logger_ctor(l, d) EXCEPT !.m_output = obj[error].m_output]]
    /\ m_loggers' = register_me(m_loggers, l, Local)
    /\ last' = NoCall
    /\ UNCHANGED << loglevel, sink, stmtvars >>

\* a logger<l> object is defined by the program: logger::logger( bool )
Construct(l, d) ==
    /\ Between /\ ~obj[Local].live
    /\ obj' = [obj EXCEPT ![Local] = logger_ctor(l, d)]
    /\ m_loggers' = register_me(m_loggers, l, Local)
    /\ last' = NoCall
    /\ UNCHANGED << loglevel, sink, stmtvars >>

\* a logger object is defined by the program as a copy of object i:
\* logger::logger( const logger & )
CopyConstruct(i) ==
    /\ Between /\ ~obj[Local].live /\ obj[i].live
    /\ obj' = [obj EXCEPT ![Local] = logger_copy(obj[i])]
    /\ m_loggers' = register_me(m_loggers, obj[i].level, Local)
    /\ last' = NoCall
    /\ UNCHANGED << loglevel, sink, stmtvars >>

\* the logger object defined by the program goes out of scope: logger::~logger
Destroy ==
    /\ Between /\ obj[Local].live
    /\ m_loggers' = unregister_me(m_loggers, obj[Local].level, Local)
    /\ obj' = [obj EXCEPT ![Local] = Dead]
    /\ last' = NoCall
    /\ UNCHANGED << loglevel, sink, stmtvars >>

(* ------------------ calls made on an empty registry -------------------- *)
\* what a call through the null pointer m_loggers can do: the process is
\* ended by a signal, or the call returns and the program goes on
NullDeref == {"crashed", "idle"}

\* the static logger< l >::set_all_outputs( stream )
StaticSetAllOutputs(l, s) ==
    /\ Between
    /\ IF m_loggers[l].alloc
       THEN obj' = set_all_outputs(obj, m_loggers, l, s) /\ pc' = pc
       ELSE obj' = obj /\ pc' \in NullDeref
    /\ last' = [op |-> "set_all_outputs", lvl |-> l, arg |-> s, old |-> NullTxt]
    /\ UNCHANGED << loglevel, m_loggers, sink, cur, orig, cond, recv, toks, base,
                    thr >>

\* the static logger< l >::prepend_all( text )
StaticPrependAll(l, t) ==
    /\ Between
    /\ IF m_loggers[l].alloc
       THEN obj' = prepend_all(obj, m_loggers, l, t) /\ pc' = pc
       ELSE obj' = obj /\ pc' \in NullDeref
    /\ last' = [op |-> "prepend_all", lvl |-> l, arg |-> t, old |-> NullTxt]
    /\ UNCHANGED << loglevel, m_loggers, sink, cur, orig, cond, recv, toks, base,
                    thr >>

\* the static logger< l >::append_all( text )
StaticAppendAll(l, t) ==
    /\ Between
    /\ IF m_loggers[l].alloc
       THEN obj' = append_all(obj, m_loggers, l, t) /\ pc' = pc
       ELSE obj' = obj /\ pc' \in NullDeref
    /\ last' = [op |-> "append_all", lvl |-> l, arg |-> t, old |-> NullTxt]
    /\ UNCHANGED << loglevel, m_loggers, sink, cur, orig, cond, recv, toks, base,
                    thr >>

\* logger< l >::unregister_me for the object Local when the registry of l does
\* not hold it (its destructor runs a second time): with a registry the loop
\* ends at end() and assert( it != end ) fails; without one m_loggers->begin()
\* goes through the null pointer before the assertion is reached
UnregisterAbsent(l) ==
    /\ Between /\ Local \notin Range(m_loggers[l].vec)
    /\ pc' \in IF m_loggers[l].alloc THEN {"assert_failed"}
               ELSE {"crashed", "assert_failed"}
    /\ last' = [op |-> "unregister_me", lvl |-> l, arg |-> NullTxt, old |-> NullTxt]
    /\ UNCHANGED << loglevel, obj, m_loggers, sink, cur, orig, cond, recv, toks,
                    base, thr >>

(* ----------------------------- a statement ----------------------------- *)
operator_call_keeps_flag(o, c) == logger_copy(o)

\* logger::operator(): the object it returns
operator_call(o, c) == [logger_copy(o) EXCEPT !.m_disabled = ~c]

\* logger( c ): a statement opens with a call of operator() on object i
CallOp(i, c) ==
    /\ Between /\ i \in Named
    /\ obj' = [obj EXCEPT ![Tmp] = operator_call(obj[i], c)]
    /\ m_loggers' = register_me(m_loggers, obj[i].level, Tmp)
    /\ pc' = "called"
    /\ cur' = Tmp
    /\ orig' = i
    /\ cond' = IF c THEN "true" ELSE "false"
    /\ base' = sink
    /\ last' = NoCall
    /\ UNCHANGED << loglevel, sink, recv, toks, thr >>

\* the logger a first operator<< is applied to: object i named by the program,
\* or the temporary a call of operator() has just returned
FirstOperand(i) ==
    \/ /\ Between /\ i \in Named
       /\ cur' = i /\ orig' = i /\ cond' = "none" /\ base' = sink
       /\ last' = NoCall
    \/ /\ pc = "called" /\ i = cur
       /\ UNCHANGED << cur, orig, cond, base, last, thr >>

\* operator<<( const logger &, const T & ): the first token is a value
ShiftLoggerValue(i, v) ==
    /\ FirstOperand(i)
    /\ sink' = shift_logger_value(obj[i], sink, v).snk
    /\ recv' = shift_logger_value(obj[i], sink, v).recv
    /\ toks' = << v >>
    /\ pc' = "open"
    /\ UNCHANGED << loglevel, obj, m_loggers, thr >>

\* operator<<( const logger &, standard_endline ): the first token is std::endl
ShiftLoggerEndl(i) ==
    /\ FirstOperand(i)
    /\ sink' = shift_logger_endl(obj[i], sink).snk
    /\ recv' = shift_logger_endl(obj[i], sink).recv
    /\ toks' = << endl >>
    /\ pc' = "open"
    /\ UNCHANGED << loglevel, obj, m_loggers, thr >>

\* operator<<( const receiver &, const T & ): a further value
ShiftReceiverValue(v) ==
    /\ pc = "open" /\ Len(toks) < MaxTokens
    /\ sink' = shift_receiver_value(obj[cur], sink, recv, v).snk
    /\ recv' = shift_receiver_value(obj[cur], sink, recv, v).recv
    /\ toks' = Append(toks, v)
    /\ UNCHANGED << loglevel, obj, m_loggers, pc, cur, orig, cond, base, last, thr >>

\* operator<<( const receiver &, standard_endline ): a further std::endl
ShiftReceiverEndl ==
    /\ pc = "open" /\ Len(toks) < MaxTokens
    /\ sink' = shift_receiver_endl(obj[cur], sink, recv).snk
    /\ recv' = shift_receiver_endl(obj[cur], sink, recv).recv
    /\ toks' = Append(toks, endl)
    /\ UNCHANGED << loglevel, obj, m_loggers, pc, cur, orig, cond, base, last, thr >>

\* operator<<( const receiver &, const T & ): the value that follows a
\* std::endl streamed in the middle of the statement
ShiftReceiverValueAfterEndl(v) ==
    /\ pc = "open" /\ Len(toks) \in 2..MaxTokens /\ toks[Len(toks)] = endl
    /\ sink' = shift_receiver_value(obj[cur], sink, recv, v).snk
    /\ recv' = shift_receiver_value(obj[cur], sink, recv, v).recv
    /\ toks' = Append(toks, v)
    /\ UNCHANGED << loglevel, obj, m_loggers, pc, cur, orig, cond, base, last, thr >>

\* the end of the full expression: the temporaries are destroyed, the
\* receivers first, then the logger operator() returned
EndStatement ==
    /\ pc \in {"called", "open"}
    /\ sink' = DestroyReceivers(recv, obj[cur], sink)
    /\ IF cond = "none"
       THEN UNCHANGED << obj, m_loggers >>
       ELSE /\ m_loggers' = unregister_me(m_loggers, obj[cur].level, cur)
            /\ obj' = [obj EXCEPT ![cur] = Dead]
    /\ recv' = << >>
    /\ cur' = disabled
    /\ pc' = "done"
    /\ UNCHANGED << loglevel, orig, cond, toks, base, last, thr >>

\* the program goes on to what follows the statement
NextStatement ==
    /\ pc = "done"
    /\ pc' = "idle"
    /\ orig' = disabled
    /\ cond' = "none"
    /\ toks' = << >>
    /\ base' = sink
    /\ UNCHANGED << loglevel, obj, m_loggers, sink, cur, recv, last, thr >>

\* receiver::receiver( const receiver & ) called by the program, or by a build
\* that does not elide the copy of a returned receiver: one more receiver,
\* copied from the youngest, lives until the end of the statement
CopyReceiver ==
    /\ pc = "open"
    /\ Cardinality({k \in 1..Len(recv) : ~recv[k].m_treated}) <= MaxCopies
    /\ recv' = Append(recv, receiver_copy(recv[Len(recv)]))
    /\ UNCHANGED << loglevel, obj, m_loggers, sink, pc, cur, orig, cond, toks,
                    base, last, thr >>

\* the steps of a statement after its first operand
Statement ==
    \/ \E v \in Values : ShiftReceiverValue(v)
    \/ ShiftReceiverEndl
    \/ EndStatement
    \/ NextStatement

(* ------------------- one statement as a pure function ------------------ *)
NoOutput == [s \in Streams |-> << >>]

\* the calls of `logger << t2 << ... << tn` after the first, on state st
RECURSIVE shift_rest(_, _, _)
shift_rest(o, st, ts) ==
    IF ts = << >> THEN st
    ELSE shift_rest(o,
                    IF Head(ts) = endl
                    THEN shift_receiver_endl(o, st.snk, st.recv)
                    ELSE shift_receiver_value(o, st.snk, st.recv, Head(ts)),
                    Tail(ts))

\* what the statement `logger << t1 << ... << tn;` on object o adds to the streams
plain_statement(o, ts) ==
    IF ts = << >> THEN NoOutput
    ELSE LET first == IF Head(ts) = endl
                      THEN shift_logger_endl(o, NoOutput)
                      ELSE shift_logger_value(o, NoOutput, Head(ts))
             st == shift_rest(o, first, Tail(ts))
         IN  DestroyReceivers(st.recv, o, st.snk)

\* the token sequences of a statement
TokenSeqs == UNION {[1..n -> Values \cup {endl}] : n \in 1..MaxTokens}

\* the statement `logger << t1 << ... << tn;` on object i, run as a whole
PlainStatement(i, ts) ==
    /\ pc = "idle" /\ i \in Named
    /\ Len(sink["A"]) + Len(sink["B"]) <= MaxWritten
    /\ sink' = [s \in Streams |-> sink[s] \o plain_statement(obj[i], ts)[s]]
    /\ orig' = i
    /\ toks' = ts
    /\ base' = sink
    /\ last' = NoCall
    /\ UNCHANGED << loglevel, obj, m_loggers, pc, cur, cond, recv, thr >>

call_statement_disables_original(i, c, ts) ==
    /\ pc = "idle" /\ i \in Named
    /\ Len(sink["A"]) + Len(sink["B"]) <= MaxWritten
    /\ sink' = [s \in Streams |->
                  sink[s] \o plain_statement(operator_call(obj[i], c), ts)[s]]
    /\ m_loggers' = unregister_me(register_me(m_loggers, obj[i].level, Tmp),
                                  obj[i].level, Tmp)
    /\ obj' = [obj EXCEPT ![i].m_disabled = ~c, ![Tmp] = Dead]
    /\ orig' = i
    /\ cond' = IF c THEN "true" ELSE "false"
    /\ toks' = ts
    /\ base' = sink
    /\ pc' = "done"
    /\ last' = NoCall
    /\ UNCHANGED << loglevel, cur, recv, thr >>

\* the statement `logger( c ) << t1 << ... << tn;` on object i, run as a
\* whole: operator() copy-constructs the temporary, which registers itself,
\* the operands are streamed into it, and at the end of the statement the
\* receivers and then the temporary are destroyed
CallStatement(i, c, ts) ==
    /\ pc = "idle" /\ i \in Named
    /\ Len(sink["A"]) + Len(sink["B"]) <= MaxWritten
    /\ sink' = [s \in Streams |->
                  sink[s] \o plain_statement(operator_call(obj[i], c), ts)[s]]
    /\ m_loggers' = unregister_me(register_me(m_loggers, obj[i].level, Tmp),
                                  obj[i].level, Tmp)
    /\ obj' = [obj EXCEPT ![Tmp] = Dead]
    /\ orig' = i
    /\ cond' = IF c THEN "true" ELSE "false"
    /\ toks' = ts
    /\ base' = sink
    /\ pc' = "done"
    /\ last' = NoCall
    /\ UNCHANGED << loglevel, cur, recv, thr >>

(* ------------------------------- color -------------------------------- *)
black == 1
red == 2
green == 3
yellow == 4
blue == 5
magenta == 6
cyan == 7
white == 8
gray == 9

ColorValues == black..gray

\* the escape character, and the digit of the escape code of a color that
\* has a case in the switch statements
ESC == "ESC"
Digits == << "0", "1", "2", "3", "4", "5", "6", "7" >>
InTable(c) == c \in black..white

Reset == << ESC, "[", "0", "m" >>
Bold(b) == IF b THEN << ESC, "[", "1", "m" >> ELSE << >>

color_default_empty ==
    [m_foreground |-> << >>, m_background |-> << >>, m_bold |-> << >>]

\* color::color()
color_default ==
    [m_foreground |-> Reset, m_background |-> << >>, m_bold |-> << >>]

\* color::color( unsigned _foreground, bool _bold )
color_fg(fg, b) ==
    [m_foreground |-> IF InTable(fg) THEN << ESC, "[", "3", Digits[fg], "m" >>
                      ELSE Reset,
     m_background |-> << >>,
     m_bold       |-> Bold(b)]

\* color::color( unsigned _foreground, unsigned _background, bool _bold )
color_fg_bg(fg, bg, b) ==
    [m_foreground |-> IF InTable(fg) THEN << ESC, "[", "3", Digits[fg], ";" >>
                      ELSE << >>,
     m_background |-> IF InTable(bg) THEN << "4", Digits[bg], "m" >> ELSE << >>,
     m_bold       |-> Bold(b)]

\* the color tokens a statement can stream, with the call that made them
ColorTokens ==
    {[call |-> "color", fg |-> 0, bg |-> 0, bold |-> FALSE, c |-> color_default]}
    \cup {[call |-> "color_fg", fg |-> f, bg |-> 0, bold |-> b, c |-> color_fg(f, b)] :
             f \in ColorValues, b \in BOOLEAN}
    \cup {[call |-> "color_fg_bg", fg |-> f, bg |-> g, bold |-> b,
           c |-> color_fg_bg(f, g, b)] :
             f \in ColorValues, g \in ColorValues, b \in BOOLEAN}

\* logger::treat for a const char * message: its characters are written
logger_treat_str(o, snk, str, first_part) ==
    IF can_log(o)
    THEN Write(snk, o.m_output,
               (IF first_part /\ o.m_prepend # NullTxt
                THEN Chars(o.m_prepend) ELSE << >>) \o str)
    ELSE snk

\* operator<<( receiver, color ):
\*     return _recv << getBold() << getForeground() << getBackground();
\* or, with first set, operator<<( logger, color ): the same on the logger
shift_color(o, snk, c, first) ==
    logger_treat_str(o,
        logger_treat_str(o,
            logger_treat_str(o, snk, c.m_bold, first),
            c.m_foreground, FALSE),
        c.m_background, FALSE)

\* the statement `logger << c;` (lead is FALSE) or `logger << "1" << c;` on
\* object i, for a color token c, run as a whole; the one receiver left
\* untreated at its end calls signal_end
ColorStatement(i, lead, tok) ==
    /\ Between /\ i \in Named
    /\ sink' = logger_signal_end(obj[i],
                  IF lead
                  THEN shift_color(obj[i], logger_treat(obj[i], sink, "1", TRUE),
                                   tok.c, FALSE)
                  ELSE shift_color(obj[i], sink, tok.c, TRUE))
    /\ orig' = i
    /\ toks' = IF lead THEN << "1", tok >> ELSE << tok >>
    /\ base' = sink
    /\ pc' = "colored"
    /\ last' = NoCall
    /\ UNCHANGED << loglevel, obj, m_loggers, cur, cond, recv, thr >>

(* ------------------- color, underline and blink tokens ----------------- *)
\* number of tokens of a statement that streams attribute tokens
MaxAttrTokens == 3

\* the strings operator<< streams for underline() and blink()
Underline == << ESC, "[", "4", "m" >>
Blink == << ESC, "[", "5", "m" >>

\* operator<<( const logger &, const color & ): the chain on the logger; the
\* receivers of the inner operator<< calls are treated when they are
\* destroyed, and the receiver returned is a fresh copy
shift_logger_color(o, snk, c) ==
    [snk  |-> shift_color(o, snk, c, TRUE),
     recv |-> << receiver_treat_mark(receiver_ctor),
                 receiver_copy(receiver_treat_mark(receiver_ctor)) >>]

\* operator<<( const logger &, const underline & ) and ( ..., const blink & ):
\*     return _logger << "\e[4m";
shift_logger_str(o, snk, str) ==
    [snk  |-> logger_treat_str(o, snk, str, TRUE),
     recv |-> << receiver_treat_mark(receiver_ctor),
                 receiver_copy(receiver_treat_mark(receiver_ctor)) >>]

shift_receiver_color_ends(o, snk, rs, c) ==
    LET n == Len(rs)
    IN  [snk  |-> IF ~rs[n].m_muted
                  THEN logger_signal_end(o, shift_color(o, snk, c, FALSE)) ELSE snk,
         recv |-> Append([rs EXCEPT ![n] = receiver_treat_mark(rs[n])],
                         receiver_copy(receiver_treat_mark(rs[n])))]

\* operator<<( const receiver &, const color & ) on the youngest receiver
shift_receiver_color(o, snk, rs, c) ==
    LET n == Len(rs)
    IN  [snk  |-> IF ~rs[n].m_muted THEN shift_color(o, snk, c, FALSE) ELSE snk,
         recv |-> Append([rs EXCEPT ![n] = receiver_treat_mark(rs[n])],
                         receiver_copy(receiver_treat_mark(rs[n])))]

\* operator<<( const receiver &, const underline & ) and ( ..., const blink & )
shift_receiver_str(o, snk, rs, str) ==
    LET n == Len(rs)
    IN  [snk  |-> IF ~rs[n].m_muted THEN logger_treat_str(o, snk, str, FALSE)
                  ELSE snk,
         recv |-> Append([rs EXCEPT ![n] = receiver_treat_mark(rs[n])],
                         receiver_copy(receiver_treat_mark(rs[n])))]

\* the operands of a statement: a value, std::endl, a color, underline() or
\* blink()
ValueTok(v) == [kind |-> "value", v |-> v, c |-> color_default]
EndlTok == [kind |-> "endl", v |-> endl, c |-> color_default]
ColorTokOf(c) == [kind |-> "color", v |-> "", c |-> c]
UnderlineTok == [kind |-> "underline", v |-> "", c |-> color_default]
BlinkTok == [kind |-> "blink", v |-> "", c |-> color_default]

AttrTokens ==
    {ColorTokOf(color_default), ColorTokOf(color_fg(green, FALSE)),
     ColorTokOf(color_fg_bg(red, green, TRUE)), UnderlineTok, BlinkTok}

Operands == {ValueTok(v) : v \in Values} \cup {EndlTok} \cup AttrTokens

\* the first operator<< of a statement, on the logger
attr_first(o, snk, t) ==
    CASE t.kind = "value"     -> shift_logger_value(o, snk, t.v)
      [] t.kind = "endl"      -> shift_logger_endl(o, snk)
      [] t.kind = "color"     -> shift_logger_color(o, snk, t.c)
      [] t.kind = "underline" -> shift_logger_str(o, snk, Underline)
      [] t.kind = "blink"     -> shift_logger_str(o, snk, Blink)

\* a further operator<< of the statement, on the youngest receiver
attr_next(o, snk, rs, t) ==
    CASE t.kind = "value"     -> shift_receiver_value(o, snk, rs, t.v)
      [] t.kind = "endl"      -> shift_receiver_endl(o, snk, rs)
      [] t.kind = "color"     -> shift_receiver_color(o, snk, rs, t.c)
      [] t.kind = "underline" -> shift_receiver_str(o, snk, rs, Underline)
      [] t.kind = "blink"     -> shift_receiver_str(o, snk, rs, Blink)

RECURSIVE attr_rest(_, _, _)
attr_rest(o, st, ts) ==
    IF ts = << >> THEN st
    ELSE attr_rest(o, attr_next(o, st.snk, st.recv, Head(ts)), Tail(ts))

\* what the statement `logger << t1 << ... << tn;` on object o adds to the
\* streams, the receivers being destroyed at its end
attr_statement(o, ts) ==
    IF ts = << >> THEN NoOutput
    ELSE LET st == attr_rest(o, attr_first(o, NoOutput, Head(ts)), Tail(ts))
         IN  DestroyReceivers(st.recv, o, st.snk)

\* the operand sequences that hold an attribute token
AttrSeqs ==
    {ts \in UNION {[1..n -> Operands] : n \in 1..MaxAttrTokens} :
        \E k \in 1..Len(ts) : ts[k] \in AttrTokens}

\* the statement `logger << t1 << ... << tn;` on object i, run as a whole
AttrStatement(i, ts) ==
    /\ Between /\ i \in Named
    /\ sink' = [s \in Streams |-> sink[s] \o attr_statement(obj[i], ts)[s]]
    /\ orig' = i
    /\ toks' = ts
    /\ base' = sink
    /\ pc' = "attributed"
    /\ last' = NoCall
    /\ UNCHANGED << loglevel, obj, m_loggers, cur, cond, recv, thr >>

(* ------------------------------ threads -------------------------------- *)
\* the character thread t streams
ThreadChar(t) == IF t = 1 THEN "1" ELSE "2"

\* std::thread t1( ... ), t2( ... ): the threads are started
StartThreads ==
    /\ Between
    /\ pc' = "threads"
    /\ last' = NoCall
    /\ UNCHANGED << loglevel, obj, m_loggers, sink, cur, orig, cond, recv, toks,
                    base, thr >>

\* thread t is inside a statement qlog::info << ch << ... << ch
Running(t) == thr[t].it < MaxIter

\* thread t executes the next operator<< of its statement: logger::treat,
\* with _first_part set for the first token
ThreadShift(t) ==
    /\ pc = "threads" /\ Running(t) /\ thr[t].n < MaxTokens
    /\ sink' = logger_treat(obj[info], sink, ThreadChar(t), thr[t].n = 0)
    /\ thr' = [thr EXCEPT ![t].n = @ + 1]
    /\ UNCHANGED << loglevel, obj, m_loggers, pc, cur, orig, cond, recv, toks,
                    base, last >>

\* the same call while another thread is writing to the stream too: the two
\* unsynchronised writes race, and this one is lost
ThreadShiftRaced(t) ==
    /\ pc = "threads" /\ Running(t) /\ thr[t].n < MaxTokens
    /\ \E u \in Threads \ {t} : Running(u)
    /\ thr' = [thr EXCEPT ![t].n = @ + 1]
    /\ UNCHANGED << loglevel, obj, m_loggers, sink, pc, cur, orig, cond, recv,
                    toks, base, last >>

\* the statement of thread t ends: receiver::~receiver calls signal_end
ThreadEnd(t) ==
    /\ pc = "threads" /\ Running(t) /\ thr[t].n = MaxTokens
    /\ sink' = logger_signal_end(obj[info], sink)
    /\ thr' = [thr EXCEPT ![t] = [n |-> 0, it |-> @.it + 1]]
    /\ UNCHANGED << loglevel, obj, m_loggers, pc, cur, orig, cond, recv, toks,
                    base, last >>

\* t1.join(); t2.join();
JoinThreads ==
    /\ pc = "threads" /\ \A t \in Threads : ~Running(t)
    /\ pc' = "joined"
    /\ UNCHANGED << loglevel, obj, m_loggers, sink, cur, orig, cond, recv, toks,
                    base, last, thr >>

(* ------------------ operator() called by two threads ------------------- *)
(* Each thread runs one statement qlog::error( c ) << ch.  Here thr[t].n is *)
(* the position of thread t in its statement and thr[t].it the index it    *)
(* has read from the vector.  Nothing in the header orders the accesses of *)
(* the two threads to *m_loggers: push_back, the search loop and erase are *)
(* made of separate reads and writes.                                      *)

\* the temporary of thread t
ThreadTmp(t) == IF t = 1 THEN Tmp ELSE Tmp2

\* the threads are started
StartCalls ==
    /\ Between
    /\ pc' = "calls"
    /\ last' = NoCall
    /\ UNCHANGED << loglevel, obj, m_loggers, sink, cur, orig, cond, recv, toks,
                    base, thr >>

\* operator() in thread t: the copy constructor calls register_me, whose
\* push_back reads the end of the vector
CallRead(t) ==
    /\ pc = "calls" /\ thr[t].n = 0
    /\ thr' = [thr EXCEPT ![t] = [n |-> 1, it |-> Len(m_loggers[error].vec)]]
    /\ UNCHANGED << loglevel, obj, m_loggers, sink, pc, cur, orig, cond, recv,
                    toks, base, last >>

\* push_back writes the pointer behind the end it has read and sets the end
\* behind it, whatever the other thread has done to the vector since; a slot
\* the other thread has erased in between still holds its pointer
push_back_at(v, k, i, stale) ==
    IF Len(v) >= k THEN Append(SubSeq(v, 1, k), i)
    ELSE v \o [j \in 1..(k - Len(v)) |-> stale] \o << i >>

CallWrite(t, c) ==
    /\ pc = "calls" /\ thr[t].n = 1
    /\ obj' = [obj EXCEPT ![ThreadTmp(t)] = operator_call(obj[error], c)]
    /\ m_loggers' = [m_loggers EXCEPT ![error] =
                       [alloc |-> TRUE,
                        vec |-> push_back_at(@.vec, thr[t].it, ThreadTmp(t),
                                             ThreadTmp(3 - t))]]
    /\ thr' = [thr EXCEPT ![t].n = 2]
    /\ UNCHANGED << loglevel, sink, pc, cur, orig, cond, recv, toks, base, last >>

\* operator<< on the temporary of thread t, and the end of its receivers
CallShift(t) ==
    /\ pc = "calls" /\ thr[t].n = 2
    /\ sink' = [s \in Streams |->
                  sink[s] \o plain_statement(obj[ThreadTmp(t)], << ThreadChar(t) >>)[s]]
    /\ thr' = [thr EXCEPT ![t].n = 3]
    /\ UNCHANGED << loglevel, obj, m_loggers, pc, cur, orig, cond, recv, toks,
                    base, last >>

\* the index of the first element of v that is i, or 0
IndexOf(v, i) ==
    IF \E n \in 1..Len(v) : v[n] = i
    THEN CHOOSE n \in 1..Len(v) : v[n] = i /\ \A m \in 1..(n - 1) : v[m] # i
    ELSE 0

\* ~logger in thread t: the loop of unregister_me looks for the temporary,
\* and assert( it != end ) fails if it is not in the vector
UnregFind(t) ==
    /\ pc = "calls" /\ thr[t].n = 3
    /\ IF IndexOf(m_loggers[error].vec, ThreadTmp(t)) = 0
       THEN pc' = "assert_failed" /\ thr' = thr
       ELSE /\ pc' = pc
            /\ thr' = [thr EXCEPT ![t] =
                         [n |-> 4, it |-> IndexOf(m_loggers[error].vec, ThreadTmp(t))]]
    /\ UNCHANGED << loglevel, obj, m_loggers, sink, cur, orig, cond, recv, toks,
                    base, last >>

\* m_loggers->erase( it ) with the iterator found, which the other thread may
\* have invalidated: behind the end of the vector it is undefined behaviour
UnregErase(t) ==
    /\ pc = "calls" /\ thr[t].n = 4
    /\ IF thr[t].it <= Len(m_loggers[error].vec)
       THEN /\ m_loggers' = [m_loggers EXCEPT ![error] =
                               IF RemoveAt(@.vec, thr[t].it) = << >> THEN NullVec
                               ELSE [alloc |-> TRUE,
                                     vec |-> RemoveAt(@.vec, thr[t].it)]]
            /\ obj' = [obj EXCEPT ![ThreadTmp(t)] = Dead]
            /\ thr' = [thr EXCEPT ![t].n = 5]
            /\ pc' = pc
       ELSE /\ pc' = "crashed"
            /\ UNCHANGED << m_loggers, obj, thr >>
    /\ UNCHANGED << loglevel, sink, cur, orig, cond, recv, toks, base, last >>

\* both threads are joined
JoinCalls ==
    /\ pc = "calls" /\ \A t \in Threads : thr[t].n = 5
    /\ pc' = "joined"
    /\ UNCHANGED << loglevel, obj, m_loggers, sink, cur, orig, cond, recv, toks,
                    base, last, thr >>

(* ----------------------------- qdiilog3.hpp ---------------------------- *)
(* The logger of qdiilog3.hpp has the constructors, the registry, treat,   *)
(* signal, signal_end, operator() and the operators << of the logger above;*)
(* its members set_output, prepend and append assign the fields of the one *)
(* object they are called on.                                              *)

\* logger::set_output( stream ) of qdiilog3.hpp on object i
q3_set_output(objs, i, s) == [objs EXCEPT ![i].m_output = s]

\* logger::prepend( text ) of qdiilog3.hpp on object i
q3_prepend(objs, i, t) == [objs EXCEPT ![i].m_prepend = t]

\* logger::append( text ) of qdiilog3.hpp on object i
q3_append(objs, i, t) == [objs EXCEPT ![i].m_append = t]

\* logger< l >::set_all_outputs( stream ) of qdiilog3.hpp: set_output is
\* called on every object of the vector, in its order
RECURSIVE q3_set_each(_, _, _)
q3_set_each(objs, v, s) ==
    IF v = << >> THEN objs
    ELSE q3_set_each(q3_set_output(objs, Head(v), s), Tail(v), s)

q3_set_all_outputs(objs, regs, l, s) == q3_set_each(objs, regs[l].vec, s)

\* the member set_output called on object i
q3_SetOutput(i, s) ==
    /\ Between /\ i \in Named
    /\ obj' = q3_set_output(obj, i, s)
    /\ last' = [op |-> "q3_set_output", lvl |-> obj[i].level, arg |-> s,
                old |-> obj[i].m_output]
    /\ UNCHANGED << loglevel, m_loggers, sink, stmtvars >>

\* the global set_output( stream ) of qdiilog3.hpp
q3_SetOutputAll(s) ==
    /\ Between
    /\ obj' = q3_set_all_outputs(q3_set_all_outputs(q3_set_all_outputs(
                 q3_set_all_outputs(q3_set_all_outputs(obj, m_loggers, debug, s),
                 m_loggers, trace, s), m_loggers, info, s),
                 m_loggers, warning, s), m_loggers, error, s)
    /\ last' = [NoCall EXCEPT !.op = "q3_set_output_all", !.arg = s]
    /\ UNCHANGED << loglevel, m_loggers, sink, stmtvars >>

\* the member prepend called on object i
q3_Prepend(i, t) ==
    /\ Between /\ i \in Named
    /\ obj' = q3_prepend(obj, i, t)
    /\ last' = [op |-> "q3_prepend", lvl |-> obj[i].level, arg |-> t,
                old |-> obj[i].m_prepend]
    /\ UNCHANGED << loglevel, m_loggers, sink, stmtvars >>

\* the member append called on object i
q3_Append(i, t) ==
    /\ Between /\ i \in Named
    /\ obj' = q3_append(obj, i, t)
    /\ last' = [op |-> "q3_append", lvl |-> obj[i].level, arg |-> t,
                old |-> obj[i].m_append]
    /\ UNCHANGED << loglevel, m_loggers, sink, stmtvars >>

\* the statement `logger << t1 << ... << tn;` on object i
q3_Statement(i, ts) ==
    /\ pc = "idle" /\ i \in Named
    /\ Len(sink["A"]) + Len(sink["B"]) <= MaxWritten
    /\ sink' = [s \in Streams |-> sink[s] \o plain_statement(obj[i], ts)[s]]
    /\ last' = NoCall
    /\ UNCHANGED << loglevel, obj, m_loggers, stmtvars >>

(* ----------------------------- qdiilog.hpp ----------------------------- *)
(* The revision qdiilog.hpp: five Logger objects log_debug .. log_error,   *)
(* here obj[debug] .. obj[error]; loglevel is g_config.filter_level.  A    *)
(* Logger is a std::ostream that shares the buffer of its output.          *)

\* Logger::Logger( Loglevel ): m_undecoratedLogger stays nullptr, the output
\* is std::cout, and a MutedLogger is allocated
qdii_Logger(l) ==
    [m_level |-> l, m_output |-> cout, m_userPrepend |-> "", m_muted |-> FALSE,
     m_undecoratedLogger |-> "nullptr", m_mutedLogger |-> "MutedLogger"]

\* MutedLogger( _level ): Logger( _level, true, true ), which sets no output
qdii_MutedLogger(l) ==
    [m_level |-> l, m_output |-> NoSink, m_userPrepend |-> "", m_muted |-> TRUE,
     m_undecoratedLogger |-> "nullptr", m_mutedLogger |-> "nullptr"]

\* UndecoratedLogger( _level ): Logger( _level, true, false ); its prepend()
\* does nothing and its isDecorated() is false
qdii_UndecoratedLogger(o) ==
    [m_level |-> o.m_level, m_output |-> o.m_output, m_userPrepend |-> "",
     m_muted |-> FALSE, m_undecoratedLogger |-> "nullptr",
     m_mutedLogger |-> "MutedLogger"]

\* the switch of operator<<, which falls through from the logger's level
qdii_canLog(level, filter) ==
    \/ level = error /\ filter = error
    \/ level \in {error, warning} /\ filter = warning
    \/ level \in {error, warning, info} /\ filter = info
    \/ level \in {error, warning, info, trace} /\ filter = trace
    \/ level \in {error, warning, info, trace, debug} /\ filter = debug

\* Logger::isDecorated
qdii_isDecorated(o) == o.m_userPrepend # ""

\* Logger::prepend: the characters it writes
qdii_prepend(o) ==
    IF o.m_userPrepend # "" /\ o.m_output # NoSink THEN << o.m_userPrepend >>
    ELSE << >>

\* std::ostream::operator<<( std::ostream & (*)( std::ostream & ) ) and the
\* operators of std::ostream that follow it in a chain.  T && cannot be
\* deduced from std::endl, a function template, so `log << std::endl` is not
\* a call of the operator<< of this header: it is the member of the base
\* class std::ostream, which writes to the stream buffer buf of the Logger
\* (nothing if it has none) and returns a std::ostream &, on which the rest of
\* the chain ts is written as well.
std_ostream_shift(buf, snk, ts) ==
    IF buf = NoSink THEN snk ELSE Write(snk, buf, Flat(ts))

\* operator<<( Logger &, T && ) for the n-th operand of a statement, a value:
\* the streams afterwards, and the Logger it returns
qdii_shift(o, snk, t, n) ==
    [snk |-> IF o.m_output # NoSink /\ ~o.m_muted /\ qdii_canLog(o.m_level, loglevel)
             THEN Write(snk, o.m_output, qdii_prepend(o) \o TokChars(t))
             ELSE snk,
     ret |-> IF ~o.m_muted /\ qdii_isDecorated(o)
                /\ o.m_undecoratedLogger # "nullptr"
             THEN qdii_UndecoratedLogger(o) ELSE o]

\* Logger::operator()
qdii_call(o, c) ==
    IF ~c /\ o.m_mutedLogger # "nullptr" THEN qdii_MutedLogger(o.m_level) ELSE o

\* the chain o << t_n << ... on the streams snk
RECURSIVE qdii_chain(_, _, _, _)
qdii_chain(o, snk, ts, n) ==
    IF ts = << >> THEN snk
    ELSE IF Head(ts) = endl THEN std_ostream_shift(o.m_output, snk, ts)
    ELSE LET r == qdii_shift(o, snk, Head(ts), n)
         IN  qdii_chain(r.ret, r.snk, Tail(ts), n + 1)

\* the state of the program when main() begins
qdii_Init ==
    /\ loglevel = error
    /\ obj = [l \in Levels |-> qdii_Logger(l)]
    /\ m_loggers = << >>
    /\ sink = [s \in Streams |-> << >>]
    /\ pc = "idle"
    /\ cur = disabled
    /\ orig = disabled
    /\ cond = "none"
    /\ recv = << >>
    /\ toks = << >>
    /\ base = [s \in Streams |-> << >>]
    /\ last = NoCall
    /\ thr = [t \in Threads |-> NoThread]

\* the characters written so far, to all streams
Written == Len(sink["A"]) + Len(sink["B"]) + Len(sink[cout])

\* setLogLevel( level )
qdii_setLogLevel(l) ==
    /\ Written <= MaxPending
    /\ loglevel' = l
    /\ last' = [NoCall EXCEPT !.op = "setLogLevel", !.lvl = l]
    /\ UNCHANGED << obj, m_loggers, sink, stmtvars >>

\* the global setOutput( stream ): Logger::setOutput on the five loggers
qdii_setOutput(s) ==
    /\ Written <= MaxPending
    /\ obj' = [l \in Levels |-> [obj[l] EXCEPT !.m_output = s]]
    /\ last' = [NoCall EXCEPT !.op = "setOutput", !.arg = s]
    /\ UNCHANGED << loglevel, m_loggers, sink, stmtvars >>

\* Logger::setPrependText( text ) on logger i
qdii_setPrependText(i, t) ==
    /\ Written <= MaxPending
    /\ obj' = [obj EXCEPT ![i].m_userPrepend = t]
    /\ last' = [NoCall EXCEPT !.op = "setPrependText", !.lvl = i, !.arg = t]
    /\ UNCHANGED << loglevel, m_loggers, sink, stmtvars >>

\* setPrependTextQdiiFlavour()
qdii_setPrependTextQdiiFlavour ==
    /\ Written <= MaxPending
    /\ obj' = [l \in Levels |->
                 [obj[l] EXCEPT !.m_userPrepend =
                    IF l = info THEN "[..] "
                    ELSE IF l = warning THEN "[ww] "
                    ELSE IF l = error THEN "[EE] " ELSE ""]]
    /\ last' = [NoCall EXCEPT !.op = "setPrependTextQdiiFlavour"]
    /\ UNCHANGED << loglevel, m_loggers, sink, stmtvars >>

\* the statement `log << t1 << ... << tn;` (c is "none") or
\* `log( c ) << t1 << ... << tn;` on logger i, run as a whole
qdii_Statement(i, c, ts) ==
    /\ pc = "idle" /\ Written <= MaxPending
    /\ sink' = qdii_chain(IF c = "none" THEN obj[i] ELSE qdii_call(obj[i], c = "true"),
                          sink, ts, 1)
    /\ orig' = i
    /\ cond' = c
    /\ toks' = ts
    /\ base' = sink
    /\ pc' = "done"
    /\ last' = NoCall
    /\ UNCHANGED << loglevel, obj, m_loggers, cur, recv, thr >>

NextQdii ==
    \/ \E l \in Levels : qdii_setLogLevel(l)
    \/ \E s \in Sinks : qdii_setOutput(s)
    \/ qdii_setPrependText(error, "a")
    \/ qdii_setPrependTextQdiiFlavour
    \/ \E i \in Levels, c \in {"none", "true", "false"}, ts \in TokenSeqs :
          qdii_Statement(i, c, ts)
    \/ NextStatement

SpecQdii == qdii_Init /\ [][NextQdii]_vars

(* ------------------- qdiilog.hpp, LoggerImplementation ----------------- *)
(* The revision with LoggerImplementation: each level has one singleton    *)
(* LoggerImplementation, here obj[debug] .. obj[error], and the wrappers   *)
(* Logger< LEVEL > registered with it: the static logger of the level,     *)
(* "log", and the muted static nullLogger of operator().  A wrapper is a   *)
(* std::ostream; rdbuf[w] is the stream its buffer belongs to.  loglevel   *)
(* is g_config.filter_level.                                              *)

\* enum class Loglevel: disable follows error
disable == error + 1

impl_Wrappers == {"log", "nullLogger"}

\* LoggerImplementation( LEVEL ) of getSingleton(), and the static
\* Logger< LEVEL > registered with it by Logger::Logger
impl_LoggerImplementation(l) ==
    [m_level |-> l, m_output |-> NoSink, m_userPrepend |-> "",
     m_wrappers |-> {"log"}, rdbuf |-> [w \in impl_Wrappers |-> NoSink]]

\* LoggerImplementation::canLog: the switch falls through from m_level
impl_canLog(level, filter) ==
    IF level = disable THEN FALSE
    ELSE \/ level = error /\ filter = error
         \/ level \in {error, warning} /\ filter = warning
         \/ level \in {error, warning, info} /\ filter = info
         \/ level \in {error, warning, info, trace} /\ filter = trace
         \/ level \in {error, warning, info, trace, debug} /\ filter = debug

\* LoggerImplementation::prepend
impl_prepend(o) ==
    IF o.m_userPrepend # "" /\ o.m_output # NoSink THEN << o.m_userPrepend >>
    ELSE << >>

\* LoggerImplementation::processLog: the characters of the string it returns
impl_processLog(o, t) ==
    IF o.m_output # NoSink /\ impl_canLog(o.m_level, loglevel)
    THEN impl_prepend(o) \o TokChars(t) ELSE << >>

\* LoggerImplementation::updateOutput, with Logger::updateOutput of every
\* registered wrapper
impl_updateOutput(o, s) ==
    [o EXCEPT !.m_output = s,
              !.rdbuf = [w \in impl_Wrappers |->
                           IF w \in o.m_wrappers THEN s ELSE o.rdbuf[w]]]

\* Logger::operator(): the first call constructs the static nullLogger, which
\* registers itself; the wrapper returned
impl_call_register(o) == [o EXCEPT !.m_wrappers = @ \cup {"nullLogger"}]

impl_call(o, c) ==
    IF c /\ impl_canLog(o.m_level, loglevel) THEN "log" ELSE "nullLogger"

\* operator<<( Logger< LEVEL > &, T && ) on wrapper w for a value t
impl_shift(o, w, snk, t) ==
    IF w # "nullLogger" /\ o.rdbuf[w] # NoSink
    THEN Write(snk, o.rdbuf[w], impl_processLog(o, t)) ELSE snk

\* the chain w << t1 << ... on the streams snk; std::endl is not an operand
\* of the operator<< of the header but of std::ostream::operator<<
RECURSIVE impl_chain(_, _, _, _)
impl_chain(o, w, snk, ts) ==
    IF ts = << >> THEN snk
    ELSE IF Head(ts) = endl THEN std_ostream_shift(o.rdbuf[w], snk, ts)
    ELSE impl_chain(o, w, impl_shift(o, w, snk, Head(ts)), Tail(ts))

\* the state of the program when main() begins
impl_Init ==
    /\ loglevel = error
    /\ obj = [l \in Levels |-> impl_LoggerImplementation(l)]
    /\ m_loggers = << >>
    /\ sink = [s \in Streams |-> << >>]
    /\ pc = "idle"
    /\ cur = disabled
    /\ orig = disabled
    /\ cond = "none"
    /\ recv = << >>
    /\ toks = << >>
    /\ base = [s \in Streams |-> << >>]
    /\ last = NoCall
    /\ thr = [t \in Threads |-> NoThread]

\* setLogLevel( level )
impl_setLogLevel(l) ==
    /\ pc = "idle" /\ Written <= MaxWritten
    /\ loglevel' = l
    /\ last' = [NoCall EXCEPT !.op = "setLogLevel", !.lvl = l]
    /\ UNCHANGED << obj, m_loggers, sink, stmtvars >>

\* the global setOutput( stream ): Logger::setOutput on the five loggers
impl_setOutput(s) ==
    /\ pc = "idle" /\ Written <= MaxPending
    /\ obj' = [l \in Levels |-> impl_updateOutput(obj[l], s)]
    /\ last' = [NoCall EXCEPT !.op = "setOutput", !.arg = s]
    /\ UNCHANGED << loglevel, m_loggers, sink, stmtvars >>

\* Logger::setPrependText( text ) on the logger of level i
impl_setPrependText(i, t) ==
    /\ pc = "idle" /\ Written <= MaxPending
    /\ obj' = [obj EXCEPT ![i].m_userPrepend = t]
    /\ last' = [NoCall EXCEPT !.op = "setPrependText", !.lvl = i, !.arg = t]
    /\ UNCHANGED << loglevel, m_loggers, sink, stmtvars >>

\* the statement `log << t1 << ... << tn;` (c is "none") or
\* `log( c ) << t1 << ... << tn;` on the logger of level i, run as a whole
impl_Statement(i, c, ts) ==
    /\ pc = "idle" /\ Written <= MaxWritten
    /\ LET o == IF c = "none" THEN obj[i] ELSE impl_call_register(obj[i])
           w == IF c = "none" THEN "log" ELSE impl_call(o, c = "true")
       IN  /\ obj' = [obj EXCEPT ![i] = o]
           /\ sink' = impl_chain(o, w, sink, ts)
    /\ orig' = i
    /\ cond' = c
    /\ toks' = ts
    /\ base' = sink
    /\ pc' = "done"
    /\ last' = NoCall
    /\ UNCHANGED << loglevel, m_loggers, cur, recv, thr >>

NextImpl ==
    \/ \E l \in Levels \cup {disable} : impl_setLogLevel(l)
    \/ \E s \in Sinks : impl_setOutput(s)
    \/ impl_setPrependText(error, "a")
    \/ \E i \in Levels, ts \in TokenSeqs : impl_Statement(i, "none", ts)
    \/ \E c \in {"true", "false"}, ts \in TokenSeqs : impl_Statement(error, c, ts)
    \/ NextStatement

SpecImpl == impl_Init /\ [][NextImpl]_vars

(* ------------------- the Logger of unittests2.cpp ---------------------- *)
(* The header embedded in unittests2.cpp: five Logger objects, one per     *)
(* Loglevel, each with its own m_output; loglevel is g_config.filter_level.*)
(* The enumerators of Loglevel are ordered debug < trace < info < warning  *)
(* < error, as the levels above.  std::endl is no operand here: T && is not*)
(* deduced from it and Logger is no std::ostream, so the statement does    *)
(* not compile.                                                            *)

\* Logger::Logger( Loglevel )
u2_Logger(l) == [m_output |-> NoSink, m_level |-> l]

\* OutputNull::nullOutput, a Logger of the default level that has no output
u2_nullOutput == u2_Logger(error)

\* Logger::setOutput
u2_Logger_setOutput(o, s) == [o EXCEPT !.m_output = s]

\* Logger::operator(): *this or nullOutput
u2_call(o, c) == IF c THEN o ELSE u2_nullOutput

\* operator<<( Logger &, T && ) for a value t, filter being
\* g_config.filter_level
u2_shift(o, filter, snk, t) ==
    IF o.m_output # NoSink
    THEN IF filter >= o.m_level THEN Write(snk, o.m_output, TokChars(t)) ELSE snk
    ELSE snk

\* the chain logger << t1 << ... : every operator<< returns the logger
RECURSIVE u2_chain(_, _, _, _)
u2_chain(o, filter, snk, ts) ==
    IF ts = << >> THEN snk
    ELSE u2_chain(o, filter, u2_shift(o, filter, snk, Head(ts)), Tail(ts))

\* the state of the program when main() begins: log_debug .. log_error, and
\* QdiilogOstream::QdiilogOstream
u2_Init ==
    /\ loglevel = error
    /\ obj = [l \in Levels |-> u2_Logger(l)]
    /\ m_loggers = << >>
    /\ sink = [s \in Streams |-> << >>]
    /\ pc = "idle"
    /\ cur = disabled
    /\ orig = disabled
    /\ cond = "none"
    /\ recv = << >>
    /\ toks = << >>
    /\ base = [s \in Streams |-> << >>]
    /\ last = NoCall
    /\ thr = [t \in Threads |-> NoThread]

\* setLogLevel( level )
u2_setLogLevel(l) ==
    /\ pc = "idle" /\ Written <= MaxWritten
    /\ loglevel' = l
    /\ last' = [NoCall EXCEPT !.op = "setLogLevel", !.lvl = l]
    /\ UNCHANGED << obj, m_loggers, sink, stmtvars >>

\* the global setOutput( stream ): Logger::setOutput on the five loggers
u2_setOutput(s) ==
    /\ pc = "idle" /\ Written <= MaxPending
    /\ obj' = [l \in Levels |-> u2_Logger_setOutput(obj[l], s)]
    /\ last' = [NoCall EXCEPT !.op = "setOutput", !.arg = s]
    /\ UNCHANGED << loglevel, m_loggers, sink, stmtvars >>

\* the member setOutput( stream ) on the logger of level i
u2_setOutputOf(i, s) ==
    /\ pc = "idle" /\ Written <= MaxPending
    /\ obj' = [obj EXCEPT ![i] = u2_Logger_setOutput(@, s)]
    /\ last' = [NoCall EXCEPT !.op = "Logger::setOutput", !.lvl = i, !.arg = s]
    /\ UNCHANGED << loglevel, m_loggers, sink, stmtvars >>

\* the value sequences of a statement
u2_TokenSeqs == UNION {[1..n -> Values] : n \in 1..MaxTokens}

\* the statement `log << t1 << ... << tn;` (c is "none") or
\* `log( c ) << t1 << ... << tn;` on the logger of level i, run as a whole
u2_Statement(i, c, ts) ==
    /\ pc = "idle" /\ Written <= MaxWritten
    /\ sink' = u2_chain(IF c = "none" THEN obj[i] ELSE u2_call(obj[i], c = "true"),
                        loglevel, sink, ts)
    /\ orig' = i
    /\ cond' = c
    /\ toks' = ts
    /\ base' = sink
    /\ pc' = "done"
    /\ last' = NoCall
    /\ UNCHANGED << loglevel, obj, m_loggers, cur, recv, thr >>

NextU2 ==
    \/ \E l \in Levels : u2_setLogLevel(l)
    \/ \E s \in Sinks : u2_setOutput(s)
    \/ u2_setOutputOf(warning, "B")
    \/ \E i \in Levels, ts \in u2_TokenSeqs : u2_Statement(i, "none", ts)
    \/ \E c \in {"true", "false"}, ts \in u2_TokenSeqs : u2_Statement(error, c, ts)
    \/ NextStatement

SpecU2 == u2_Init /\ [][NextU2]_vars

(* --------------------------- specifications ---------------------------- *)
\* the five static loggers under every threshold; warning is the level whose
\* member functions are called
Next ==
    \/ \E l \in LogLevels : SetLoglevel(l)
    \/ \E s \in Sinks : SetOutputAll(s)
    \/ \E s \in Sinks : SetOutput(warning, s)
    \/ Prepend(warning, "a")
    \/ AppendTxt(warning, "b")
    \/ \E i \in Statics, c \in BOOLEAN : CallOp(i, c)
    \/ \E i \in Statics \cup {Tmp}, v \in Values : ShiftLoggerValue(i, v)
    \/ \E i \in Statics \cup {Tmp} : ShiftLoggerEndl(i)
    \/ Statement

Spec == Init /\ [][Next]_vars

\* the objects of severity error: the static logger and a local one
ErrorObjs == {error, Local}

NextDecor ==
    \/ \E i \in ErrorObjs, s \in Sinks : SetOutput(i, s)
    \/ \E i \in ErrorObjs, t \in Texts : Prepend(i, t)
    \/ \E i \in ErrorObjs, t \in Texts : AppendTxt(i, t)
    \/ \E d \in BOOLEAN : Construct(error, d)
    \/ Destroy
    \/ \E i \in ErrorObjs, c \in BOOLEAN : CallOp(i, c)
    \/ \E i \in ErrorObjs \cup {Tmp}, v \in Values : ShiftLoggerValue(i, v)
    \/ \E i \in ErrorObjs \cup {Tmp} : ShiftLoggerEndl(i)
    \/ Statement

SpecDecor == Init /\ [][NextDecor]_vars

\* the static error logger with a suffix, and statements whose receivers are
\* copied
NextCopy ==
    \/ \E s \in Sinks : SetOutput(error, s)
    \/ \E t \in {"a"} : Prepend(error, t)
    \/ \E t \in {"", "b"} : AppendTxt(error, t)
    \/ \E c \in BOOLEAN : CallOp(error, c)
    \/ \E i \in {error, Tmp}, v \in Values : ShiftLoggerValue(i, v)
    \/ \E i \in {error, Tmp} : ShiftLoggerEndl(i)
    \/ CopyReceiver
    \/ Statement

SpecCopy == Init /\ [][NextCopy]_vars

\* the five static loggers and a local one, every threshold, the global
\* set_output, and whole statements one after another
NextAll ==
    \/ \E l \in LogLevels : SetLoglevel(l)
    \/ \E s \in Sinks : SetOutputAll(s)
    \/ \E l \in {debug, error} : Construct(l, FALSE)
    \/ Destroy
    \/ \E i \in Statics \cup {Local}, ts \in TokenSeqs : PlainStatement(i, ts)

SpecAll == Init /\ [][NextAll]_vars

\* the severities error and custom: objects come and go, and the static
\* member functions are called whether or not an object is registered
RegLevels == {error, custom}

NextReg ==
    \/ \E l \in RegLevels, d \in BOOLEAN : Construct(l, d)
    \/ Destroy
    \/ \E l \in RegLevels, s \in Sinks : StaticSetAllOutputs(l, s)
    \/ \E l \in RegLevels : StaticPrependAll(l, "a")
    \/ \E l \in RegLevels : StaticAppendAll(l, "b")
    \/ \E l \in RegLevels : UnregisterAbsent(l)

SpecReg == Init /\ [][NextReg]_vars

\* the lives of logger objects: a local object of severity error or custom,
\* constructed or copied from the static error logger, the temporaries of
\* operator(), and their destruction
NextLife ==
    \/ \E l \in RegLevels, d \in BOOLEAN : Construct(l, d)
    \/ CopyConstruct(error)
    \/ Destroy
    \/ \E i \in ErrorObjs : SetOutput(i, "A")
    \/ \E i \in ErrorObjs, c \in BOOLEAN : CallOp(i, c)
    \/ \E i \in ErrorObjs \cup {Tmp}, v \in Values : ShiftLoggerValue(i, v)
    \/ Statement

SpecLife == Init /\ [][NextLife]_vars

\* the loggers of severity error, configured, and whole statements on them,
\* with and without operator()
NextCall ==
    \/ \E i \in ErrorObjs : SetOutput(i, "A")
    \/ Prepend(error, "a")
    \/ AppendTxt(error, "b")
    \/ \E d \in BOOLEAN : Construct(error, d)
    \/ Destroy
    \/ \E i \in ErrorObjs, c \in BOOLEAN, ts \in TokenSeqs : CallStatement(i, c, ts)
    \/ \E i \in ErrorObjs, ts \in TokenSeqs : PlainStatement(i, ts)
    \/ NextStatement

SpecCall == Init /\ [][NextCall]_vars

\* statements on the error logger with a std::endl in the middle
NextEndl ==
    \/ \E l \in {disabled, error} : SetLoglevel(l)
    \/ \E s \in Sinks : SetOutput(error, s)
    \/ Prepend(error, "a")
    \/ AppendTxt(error, "b")
    \/ \E c \in BOOLEAN : CallOp(error, c)
    \/ \E i \in {error, Tmp}, v \in Values : ShiftLoggerValue(i, v)
    \/ \E v \in Values : ShiftReceiverValueAfterEndl(v)
    \/ Statement

SpecEndl == Init /\ [][NextEndl]_vars

\* the warning and error loggers, decorated or not, and statements that
\* stream color, underline and blink tokens
NextAttr ==
    \/ \E l \in {warning, error} : SetLoglevel(l)
    \/ \E i \in {warning, error} : SetOutput(i, "A")
    \/ \E t \in {"", "a"} : Prepend(error, t)
    \/ AppendTxt(error, "b")
    \/ \E i \in {warning, error}, ts \in AttrSeqs : AttrStatement(i, ts)

SpecAttr == Init /\ [][NextAttr]_vars

\* qdiilog3.hpp: the error and warning loggers, a second logger object of
\* one of their levels, the setters and statements
NextQ3 ==
    \/ \E l \in {warning, error} : SetLoglevel(l)
    \/ \E i \in {error, Local}, s \in Sinks : q3_SetOutput(i, s)
    \/ q3_SetOutputAll("A")
    \/ q3_Prepend(Local, "a")
    \/ q3_Append(error, "b")
    \/ \E l \in {warning, error} : Construct(l, FALSE)
    \/ Destroy
    \/ \E i \in {error, Local}, ts \in TokenSeqs : q3_Statement(i, ts)

SpecQ3 == Init /\ [][NextQ3]_vars

\* two threads run a statement with operator() on qlog::error
NextRace ==
    \/ \E s \in Sinks : SetOutput(error, s)
    \/ AppendTxt(error, "b")
    \/ StartCalls
    \/ \E t \in Threads : CallRead(t)
    \/ \E t \in Threads, c \in BOOLEAN : CallWrite(t, c)
    \/ \E t \in Threads : CallShift(t)
    \/ \E t \in Threads : UnregFind(t)
    \/ \E t \in Threads : UnregErase(t)
    \/ JoinCalls

SpecRace == Init /\ [][NextRace]_vars

\* the error logger, decorated or not, and statements with a color token
NextColor ==
    \/ \E s \in Sinks : SetOutput(error, s)
    \/ Prepend(error, "a")
    \/ AppendTxt(error, "b")
    \/ \E lead \in BOOLEAN, tok \in ColorTokens : ColorStatement(error, lead, tok)

SpecColor == Init /\ [][NextColor]_vars

\* two threads run statements on qlog::info
NextThreads ==
    \/ \E l \in {info, error} : SetLoglevel(l)
    \/ \E s \in Sinks : SetOutputAll(s)
    \/ StartThreads
    \/ \E t \in Threads : ThreadShift(t)
    \/ \E t \in Threads : ThreadShiftRaced(t)
    \/ \E t \in Threads : ThreadEnd(t)
    \/ JoinThreads

SpecThreads == Init /\ [][NextThreads]_vars

(* ------------------------- reading a statement ------------------------- *)
\* what the current statement has added to stream s
Delta(s) == SubSeq(sink[s], Len(base[s]) + 1, Len(sink[s]))

Silent == \A s \in Streams : Delta(s) = << >>

IsInfix(a, b) ==
    \E k \in 0..(Len(b) - Len(a)) : SubSeq(b, k + 1, k + Len(a)) = a

InStatement == pc \in {"called", "open", "done"}

\* the configuration of the logger named in the statement
Out == obj[orig].m_output
Pre == Chars(obj[orig].m_prepend)
Suf == Chars(obj[orig].m_append)

\* the statement has streamed a token and passes the three gates: level,
\* stream, disabled flag
Passing ==
    /\ pc \in {"open", "done"} /\ toks # << >>
    /\ obj[orig].level >= loglevel
    /\ obj[orig].m_output # NoSink
    /\ IF cond = "none" THEN ~obj[orig].m_disabled ELSE cond = "true"

\* the objects registered for level l
Registered(l) == Range(m_loggers[l].vec)

(* ------------------------------- claims -------------------------------- *)

\* C1: under a threshold T among debug..error, a finished statement on an
\* enabled logger of level L that has a stream has written its tokens iff
\* L >= T; when L < T nothing at all was written.
C1_FilterByLevel ==
    ( /\ pc = "done" /\ cond = "none" /\ toks # << >>
      /\ loglevel \in Levels
      /\ ~obj[orig].m_disabled /\ obj[orig].m_output # NoSink )
    => /\ IsInfix(Flat(toks), Delta(Out)) <=> (obj[orig].level >= loglevel)
       /\ obj[orig].level < loglevel => Silent

C1_Witness ==
    /\ pc = "done" /\ cond = "none" /\ Len(toks) = 2
    /\ loglevel = warning /\ orig = warning
    /\ obj[orig].m_output = "A"
    /\ IsInfix(Flat(toks), Delta("A"))

\* C2: while the threshold is loglevel::disabled no statement, of any
\* severity, writes a character to any stream.
C2_DisabledWritesNothing ==
    (InStatement /\ loglevel = disabled) => Silent

\* C3: a passing statement on a logger with a suffix has written no suffix
\* while tokens are still being streamed, and once it is over it has written
\* exactly prefix, tokens, suffix: the suffix once, after the last token.
C3_SuffixOnceAfterLastToken ==
    (Passing /\ obj[orig].m_append # NullTxt)
    => /\ pc = "open" => Delta(Out) = Pre \o Flat(toks)
       /\ pc = "done" => Delta(Out) = Pre \o Flat(toks) \o Suf

C3_Witness ==
    /\ Passing /\ pc = "done" /\ Len(toks) = 2
    /\ obj[orig].m_append = "b"
    /\ Delta(Out) = Pre \o Flat(toks) \o << "b" >>

\* C4: what a passing statement on a logger with prefix P has written begins
\* with P followed directly by the tokens streamed so far: P once, before t1,
\* and not again before a later token.
C4_PrefixOnceBeforeFirstToken ==
    (Passing /\ obj[orig].m_prepend # NullTxt)
    => /\ Len(Delta(Out)) >= Len(Pre) + Len(Flat(toks))
       /\ SubSeq(Delta(Out), 1, Len(Pre) + Len(Flat(toks))) = Pre \o Flat(toks)

C4_Witness ==
    /\ Passing /\ pc = "done" /\ Len(toks) = 2
    /\ obj[orig].m_prepend = "a"
    /\ SubSeq(Delta(Out), 1, 3) = << "a" >> \o Flat(toks)

\* whether a severity passes a threshold, as the documentation states it
LevelPasses(l, t) == t # disabled /\ l >= t

\* C5: a statement begun with logger(false) writes nothing, whatever the
\* threshold; a finished statement logger(cond) << ... on a logger that has a
\* stream has written something iff cond is true and the severity passes the
\* threshold.
C5_ConditionalLogging ==
    /\ (InStatement /\ cond = "false") => Silent
    /\ ( /\ pc = "done" /\ cond # "none" /\ toks # << >>
         /\ obj[orig].m_output # NoSink )
       => (~Silent <=> (cond = "true" /\ LevelPasses(obj[orig].level, loglevel)))

\* C6: what a finished statement logger(true) << ... has written is what the
\* statement logger << ... with the same tokens writes on the same logger.
C6_CallTrueSameAsPlain ==
    (pc = "done" /\ cond = "true")
    => \A s \in Streams : Delta(s) = plain_statement(obj[orig], toks)[s]

\* C7: a step that leaves a call x.set_output(s) as the last one leaves every
\* object registered for x's level with stream s; and the statement that
\* follows, on any object of that level, streams into an object whose stream
\* is s and, if it passes, writes to s and to no other stream.
C7_SetOutputBroadcast ==
    [][ /\ last'.op = "set_output"
           => \A j \in Range(m_loggers'[last'.lvl].vec) : obj'[j].m_output = last'.arg
        /\ ( /\ last.op = "set_output" /\ pc' \in {"called", "open"}
             /\ obj[orig'].level = last.lvl )
           => /\ obj'[cur'].m_output = last.arg
              /\ (pc' = "open" /\ ~obj[orig'].m_disabled
                    /\ obj[orig'].level >= loglevel)
                 => /\ sink'[last.arg] # sink[last.arg]
                    /\ \A s \in Streams \ {last.arg} : sink'[s] = sink[s]
      ]_vars

C7_Witness ==
    /\ last.op = "set_output" /\ last.arg = "B" /\ last.old = "A"
    /\ Registered(last.lvl) = {error, Local}
    /\ obj[error].m_output = "B" /\ obj[Local].m_output = "B"

\* C8: a step that leaves a call prepend(t) (append(t)) as the last one leaves
\* every object registered for that level with prefix (suffix) t; and the
\* first token of the statement that follows on an object of that level, if
\* it passes, is written after t alone.
C8_PrependAppendReplace ==
    [][ /\ last'.op = "prepend"
           => \A j \in Range(m_loggers'[last'.lvl].vec) : obj'[j].m_prepend = last'.arg
        /\ last'.op = "append"
           => \A j \in Range(m_loggers'[last'.lvl].vec) : obj'[j].m_append = last'.arg
        /\ ( /\ last.op = "prepend" /\ pc = "idle" /\ pc' = "open"
             /\ obj[orig'].level = last.lvl
             /\ ~obj[orig'].m_disabled /\ obj[orig'].level >= loglevel
             /\ obj[orig'].m_output # NoSink )
           => sink'[obj[orig'].m_output]
                = sink[obj[orig'].m_output] \o Chars(last.arg) \o Flat(toks')
      ]_vars

C8_Witness ==
    /\ last.op = "prepend" /\ last.old = "a" /\ last.arg = "b"
    /\ Registered(last.lvl) = {error, Local}
    /\ obj[error].m_prepend = "b" /\ obj[Local].m_prepend = "b"
    /\ obj[error].m_output # NoSink

\* C9: when std::endl is the first and only token of a passing statement on a
\* logger with prefix P, what was written begins with P and then the newline.
C9_PrefixBeforeLoneEndl ==
    (Passing /\ toks = << endl >> /\ obj[orig].m_prepend # NullTxt)
    => /\ Len(Delta(Out)) >= Len(Pre) + 1
       /\ SubSeq(Delta(Out), 1, Len(Pre) + 1) = Pre \o << "\n" >>

C9_Witness ==
    /\ Passing /\ pc = "done" /\ toks = << endl >>
    /\ obj[orig].m_prepend = "a"
    /\ SubSeq(Delta(Out), 1, 2) = << "a", "\n" >>

\* C10: when std::endl is the last token of a finished passing statement on a
\* logger with a suffix, what was written ends with the newline and then the
\* suffix, written once.
C10_SuffixAfterFinalEndl ==
    ( /\ Passing /\ pc = "done" /\ toks[Len(toks)] = endl
      /\ obj[orig].m_append # NullTxt )
    => Delta(Out) = Pre \o Flat(SubSeq(toks, 1, Len(toks) - 1)) \o << "\n" >> \o Suf

C10_Witness ==
    /\ Passing /\ pc = "done" /\ toks = << "1", endl >>
    /\ obj[orig].m_append = "b" /\ obj[orig].m_prepend = NullTxt
    /\ Delta(Out) = << "1", "\n", "b" >>
\* how often the text t occurs in the characters cs
RECURSIVE Count(_, _)
Count(cs, t) ==
    IF cs = << >> THEN 0
    ELSE (IF Head(cs) = t THEN 1 ELSE 0) + Count(Tail(cs), t)

\* the receivers of the statement whose destructor will call signal_end
Pending == {k \in 1..Len(recv) : ~recv[k].m_treated}

\* C11: however many receivers of a statement were copied, at most one of
\* them is left to call signal_end, and a finished statement has written its
\* suffix at most once.
C11_NoDoubleFinalize ==
    /\ pc = "open" => Cardinality(Pending) <= 1
    /\ (pc = "done" /\ obj[orig].m_append = "b")
       => \A s \in Sinks : Count(Delta(s), "b") <= 1
\* C12: a passing statement on a logger whose prefix is the empty text has
\* written its tokens, then its suffix once it is over, and no character
\* more; and the first token of the statement that follows prepend( "" )
\* made over the prefix "a" is written with nothing before it.
C12_EmptyPrependNoPrefix ==
    [][ /\ (Passing' /\ obj'[orig'].m_prepend = "")
           => Delta(Out)' = Flat(toks') \o (IF pc' = "done" THEN Suf' ELSE << >>)
        /\ ( /\ last.op = "prepend" /\ last.arg = "" /\ last.old = "a"
             /\ pc = "idle" /\ pc' = "open"
             /\ obj[orig'].level = last.lvl
             /\ ~obj[orig'].m_disabled /\ obj[orig'].level >= loglevel
             /\ obj[orig'].m_output # NoSink )
           => sink'[obj[orig'].m_output] = sink[obj[orig'].m_output] \o Flat(toks')
      ]_vars

C12_Witness ==
    /\ Passing /\ pc = "done" /\ Len(toks) = 2
    /\ obj[orig].m_prepend = "" /\ obj[orig].m_append = "b"
    /\ Delta(Out) = Flat(toks) \o << "b" >>
\* every registered object of every severity has stream s
AllOutput(s) == \A l \in Levels : \A j \in Registered(l) : obj[j].m_output = s

\* C13: a step that leaves the global set_output( s ) as the last call leaves
\* every registered object of each of the five severities with stream s; and
\* while that is so, each statement, in the order the program runs them,
\* leaves every other stream as it was and appends to s: its tokens when its
\* severity passes the threshold, nothing otherwise.
C13_GlobalSetOutput ==
    [][ /\ last'.op = "set_output_all"
           => \A l \in Levels : \A j \in Range(m_loggers'[l].vec) :
                 obj'[j].m_output = last'.arg
        /\ \A s \in Sinks :
             (AllOutput(s) /\ pc = "idle" /\ pc' = "idle" /\ last' = NoCall
                /\ obj' = obj /\ loglevel' = loglevel /\ orig' \in Inst)
             => /\ \A t \in Streams \ {s} : sink'[t] = sink[t]
                /\ sink'[s] \in {sink[s], sink[s] \o Flat(toks')}
                /\ (loglevel \in Levels /\ ~obj[orig'].m_disabled)
                   => (sink'[s] = sink[s] \o Flat(toks')
                         <=> obj[orig'].level >= loglevel)
      ]_vars

C13_Witness ==
    /\ AllOutput("B") /\ loglevel = debug /\ pc = "idle"
    /\ Cardinality(Registered(debug)) = 2
    /\ sink["A"] = << >> /\ Len(sink["B"]) > MaxTokens
    /\ orig = debug /\ Len(toks) = MaxTokens
\* C14: a step that makes a call set_output, prepend or append on a logger of
\* severity L leaves the threshold, the registries and the streams as they
\* were, leaves every object of another severity untouched, and on every
\* object changes nothing but the attribute the call is for.
C14_ConfigurationFrame ==
    [][ (last'.op \in {"set_output", "prepend", "append"})
        => /\ loglevel' = loglevel /\ m_loggers' = m_loggers /\ sink' = sink
           /\ \A i \in Inst :
                /\ obj'[i].m_disabled = obj[i].m_disabled
                /\ obj'[i].live = obj[i].live /\ obj'[i].level = obj[i].level
                /\ obj[i].level # last'.lvl => obj'[i] = obj[i]
                /\ last'.op # "set_output" => obj'[i].m_output = obj[i].m_output
                /\ last'.op # "prepend" => obj'[i].m_prepend = obj[i].m_prepend
                /\ last'.op # "append" => obj'[i].m_append = obj[i].m_append
      ]_vars

C14_Witness ==
    /\ last.op = "append" /\ last.lvl = warning /\ last.arg = "b"
    /\ obj[warning].m_append = "b" /\ obj[warning].m_output = "B"
    /\ obj[warning].m_prepend = "a"
    /\ \A i \in Statics \ {warning} :
          /\ obj[i].m_output = "A"
          /\ obj[i].m_append = NullTxt /\ obj[i].m_prepend = NullTxt
\* C15: a finished statement on an enabled logger whose severity passes the
\* threshold and whose stream was never set has written its prefix, tokens
\* and suffix to std::cout.
C15_DefaultsToCout ==
    ( /\ pc = "done" /\ cond = "none" /\ toks # << >>
      /\ obj[orig].m_output = NoSink /\ ~obj[orig].m_disabled
      /\ LevelPasses(obj[orig].level, loglevel) )
    => Delta(cout) = Pre \o Flat(toks) \o Suf
FilteredOut(o) == o.level < loglevel \/ o.m_disabled \/ o.m_output = NoSink

Broadcasts == {"set_all_outputs", "prepend_all", "append_all"}

\* C18: a step that makes a call of set_all_outputs, prepend_all or
\* append_all for a severity whose registry is empty completes (the program
\* goes on) and changes no object, registry, stream or threshold.
C18_EmptyRegistryBroadcastNoOp ==
    [][ (last'.op \in Broadcasts /\ Registered(last'.lvl) = {})
        => /\ pc' = "idle"
           /\ obj' = obj /\ m_loggers' = m_loggers /\ sink' = sink
           /\ loglevel' = loglevel
      ]_vars

C20_UnregisterAbsentAsserts ==
    [][ last'.op = "unregister_me"
        => pc' = "assert_failed" /\ obj' = obj /\ m_loggers' = m_loggers
      ]_vars
\* C21: when the two threads have been joined, the length of what each stream
\* holds is a multiple of the number of tokens of a statement, and every
\* aligned group of that many characters is one repeated character.
C21_StatementsNotInterleaved ==
    pc = "joined"
    => \A s \in Sinks :
         /\ Len(sink[s]) % MaxTokens = 0
         /\ \A k \in 1..Len(sink[s]) :
              sink[s][k] = sink[s][((k - 1) \div MaxTokens) * MaxTokens + 1]
\* the color token of the statement, and the characters the token has added
\* to the stream: what the statement wrote, less prefix, lead value and suffix
ColorTok == toks[Len(toks)]
ColorBytes ==
    SubSeq(Delta(Out), Len(Pre) + Len(toks), Len(Delta(Out)) - Len(Suf))

\* a statement with a color token has run on a logger that has a stream
Colored == pc = "colored" /\ obj[orig].m_output # NoSink

\* C22: the token color() of a passing statement adds the reset sequence
\* ESC [ 0 m to what the statement writes, and nothing else.
C22_DefaultColorIsReset ==
    (Colored /\ ColorTok.call = "color")
    => /\ ColorBytes = << ESC, "[", "0", "m" >>
       /\ Delta(Out) = Pre \o (IF Len(toks) = 2 THEN << "1" >> ELSE << >>)
                           \o << ESC, "[", "0", "m" >> \o Suf

C22_Witness ==
    /\ Colored /\ ColorTok.call = "color" /\ Len(toks) = 2
    /\ obj[orig].m_prepend = "a" /\ obj[orig].m_append = "b"
    /\ Delta(Out) = << "a", "1", ESC, "[", "0", "m", "b" >>
\* cs, read from state st, is a concatenation of complete escape sequences
\* ESC '[' digits ( ';' digits )* 'm'
IsDigit(ch) == \E k \in 1..Len(Digits) : Digits[k] = ch
RECURSIVE Sequences_(_, _)
Sequences_(cs, st) ==
    IF cs = << >> THEN st = "start"
    ELSE LET ch == Head(cs)
             nx == IF st = "start" /\ ch = ESC THEN "esc"
                   ELSE IF st = "esc" /\ ch = "[" THEN "open"
                   ELSE IF st \in {"open", "digits", "semi"} /\ IsDigit(ch)
                        THEN "digits"
                   ELSE IF st = "digits" /\ ch = ";" THEN "semi"
                   ELSE IF st = "digits" /\ ch = "m" THEN "start"
                   ELSE "bad"
         IN  nx # "bad" /\ Sequences_(Tail(cs), nx)

CompleteSequences(cs) == Sequences_(cs, "start")

\* C23: the characters a token color( fg [, bold] ) or color( fg, bg [, bold] )
\* adds to a passing statement are a concatenation of complete escape
\* sequences; and a color without a table entry (gray) adds nothing for
\* itself: what the token adds holds no reset sequence, and is what the
\* token's other attributes add.
C23_ColorEscapeSequences ==
    (Colored /\ ColorTok.call \in {"color_fg", "color_fg_bg"})
    => /\ CompleteSequences(ColorBytes)
       /\ (ColorTok.call = "color_fg" /\ ColorTok.fg = gray)
          => ColorBytes = Bold(ColorTok.bold)
       /\ (ColorTok.call = "color_fg_bg" /\ ColorTok.fg = gray /\ ColorTok.bg = gray)
          => ColorBytes = Bold(ColorTok.bold)
       /\ (ColorTok.fg = gray \/ ColorTok.bg = gray) => ~IsInfix(Reset, ColorBytes)
\* the prefixes setPrependTextQdiiFlavour is documented to set
QdiiFlavour(l) ==
    IF l = info THEN "[..] " ELSE IF l = warning THEN "[ww] "
    ELSE IF l = error THEN "[EE] " ELSE ""

\* a step is a statement of qdiilog.hpp
QdiiStatementStep == pc = "idle" /\ pc' = "done"

\* C24: a step that makes the call setPrependTextQdiiFlavour() leaves the
\* prefix of log_debug and log_trace empty, of log_info "[..] ", of
\* log_warning "[ww] " and of log_error "[EE] "; with these prefixes and the
\* filter level debug, a single-token statement writes its prefix and the
\* token to the logger's output, and a statement begun with logger( false )
\* writes nothing.
C24_QdiiFlavour ==
    [][ /\ last'.op = "setPrependTextQdiiFlavour"
           => \A l \in Levels : obj'[l].m_userPrepend = QdiiFlavour(l)
        /\ ( /\ QdiiStatementStep /\ loglevel = debug
             /\ \A l \in Levels : obj[l].m_userPrepend = QdiiFlavour(l) )
           => /\ (cond' # "false" /\ Len(toks') = 1)
                 => sink' = Write(sink, obj[orig'].m_output,
                                  (IF QdiiFlavour(orig') = "" THEN << >>
                                   ELSE << QdiiFlavour(orig') >>) \o Flat(toks'))
              /\ cond' = "false" => sink' = sink
      ]_vars

\* C25: a finished statement of several tokens on a logger of qdiilog.hpp
\* that has a non-empty prepend text P, an output and a level the filter
\* lets pass, has written P once, before the first token, and then the
\* tokens.
C25_QdiiPrependOnce ==
    [][ ( /\ QdiiStatementStep /\ cond' # "false"
          /\ obj[orig'].m_userPrepend # ""
          /\ qdii_canLog(orig', loglevel) )
        => sink' = Write(sink, obj[orig'].m_output,
                         << obj[orig'].m_userPrepend >> \o Flat(toks'))
      ]_vars

\* C26: in the LoggerImplementation revision, while the filter level is
\* Loglevel::disable canLog() is false for the five loggers and a statement
\* writes nothing, so the output already written is unchanged; while it is one
\* of debug .. error, a statement on a logger that has an output, not begun
\* with logger( false ), writes something exactly if the level of the logger
\* is at least the filter level.
C26_DisableWritesNothing ==
    [][ QdiiStatementStep
        => /\ loglevel = disable
              => /\ \A l \in Levels : ~impl_canLog(l, loglevel)
                 /\ sink' = sink
           /\ ( /\ loglevel \in Levels /\ cond' # "false"
                /\ obj[orig'].m_output # NoSink )
              => /\ impl_canLog(orig', loglevel) <=> orig' >= loglevel
                 /\ sink' # sink <=> orig' >= loglevel
      ]_vars

\* the live logger objects of severity l
LiveOf(l) == {i \in Inst : obj[i].live /\ obj[i].level = l}

\* the registry of every severity holds the live objects of the severity, each
\* once, and its pointer is null exactly if there is none
RegistryExact ==
    \A l \in AllLevels :
        /\ Registered(l) = LiveOf(l)
        /\ Len(m_loggers[l].vec) = Cardinality(LiveOf(l))
        /\ ~m_loggers[l].alloc <=> LiveOf(l) = {}

\* C27: after any sequence of constructions, copy constructions, calls of
\* operator() and destructions of loggers, the registry of each severity
\* holds exactly the live objects of that severity, each once, and its
\* pointer is null exactly if no object of the severity is live; a step that
\* constructs an object while the pointer is null leaves a registry that
\* holds exactly that object.
C27_RegistryHoldsLiveInstances ==
    /\ RegistryExact
    /\ [][ /\ RegistryExact'
           /\ \A l \in AllLevels :
                 (~m_loggers[l].alloc /\ m_loggers'[l].alloc)
                 => \E i \in Inst : /\ ~obj[i].live /\ obj'[i].live
                                    /\ m_loggers'[l].vec = << i >>
      ]_vars

C27_Witness ==
    /\ pc = "called" /\ orig = Local /\ cur = Tmp
    /\ obj[Local].level = custom /\ obj[Tmp].level = custom
    /\ m_loggers[custom] = [alloc |-> TRUE, vec |-> << Local, Tmp >>]
    /\ m_loggers[error] = [alloc |-> TRUE, vec |-> << error >>]

\* C28: a step that runs a statement `logger( c ) << ...` leaves every logger
\* the program can name as it was (disabled flag, stream, prefix, suffix),
\* and the registries and the threshold too: the temporary copy has been
\* registered and unregistered again.  A statement `logger << ...` that
\* follows on the same logger writes what it would have written before;
\* and the statement `logger( false ) << ...` itself has written nothing.
C28_CallLeavesOriginal ==
    [][ (pc = "idle" /\ pc' = "done" /\ cond' # "none")
        => /\ \A i \in Statics \cup {Local} : obj'[i] = obj[i]
           /\ ~obj'[Tmp].live
           /\ m_loggers' = m_loggers
           /\ loglevel' = loglevel
           /\ \A i \in Named, y \in Values \cup {endl} :
                 i = orig'
                 => plain_statement(obj[i], << y >>)' = plain_statement(obj[i], << y >>)
           /\ cond' = "false" => sink' = sink
      ]_vars

C28_Witness ==
    /\ pc = "done" /\ cond = "false" /\ orig = error /\ toks = << "1" >>
    /\ obj[error].m_output = "A" /\ ~obj[error].m_disabled
    /\ obj[error].m_prepend = "a" /\ obj[error].m_append = "b"
    /\ m_loggers[error].vec = << error, Local >>
    /\ Silent

\* C29: a finished statement has added to the stream of its logger either
\* nothing or exactly the prefix, its tokens in order and the suffix, and to
\* every other stream nothing: no prefix without the suffix, and no suffix
\* when the first token was suppressed.
C29_NothingOrWholeStatement ==
    (pc = "done" /\ toks # << >>)
    => \/ Silent
       \/ /\ Out # NoSink
          /\ Delta(Out) = Pre \o Flat(toks) \o Suf
          /\ \A s \in Streams \ {Out} : Delta(s) = << >>

\* C30: in a passing statement that has streamed a token, the step that
\* streams std::endl adds the line end to the stream of the logger and
\* nothing else, neither the prefix nor the suffix, and the step that streams
\* a value after it adds that value and nothing else.
C30_EndlInTheMiddle ==
    [][ (pc = "open" /\ pc' = "open" /\ Passing /\ toks' # toks)
        => /\ toks' = Append(toks, endl)
              => sink' = Write(sink, Out, << "\n" >>)
           /\ (toks[Len(toks)] = endl /\ toks'[Len(toks')] # endl)
              => sink' = Write(sink, Out, << toks'[Len(toks')] >>)
      ]_vars

C30_Witness ==
    /\ pc = "done" /\ orig = error /\ cond = "none"
    /\ toks = << "1", endl, "2" >>
    /\ obj[error].m_output = "A"
    /\ Delta("A") = << "a", "1", "\n", "2", "b" >>

\* the characters an operand adds to the stream
OperandBytes(t) ==
    CASE t.kind = "value"     -> << t.v >>
      [] t.kind = "endl"      -> << "\n" >>
      [] t.kind = "color"     -> t.c.m_bold \o t.c.m_foreground \o t.c.m_background
      [] t.kind = "underline" -> Underline
      [] t.kind = "blink"     -> Blink

RECURSIVE FlatOperands(_)
FlatOperands(ts) ==
    IF ts = << >> THEN << >> ELSE OperandBytes(Head(ts)) \o FlatOperands(Tail(ts))

\* object o without prefix and suffix
Undecorated(o) == [o EXCEPT !.m_prepend = NullTxt, !.m_append = NullTxt]

\* C31: a finished statement that streamed a color, underline or blink token
\* at any position, on a logger that passes, has written the prefix once,
\* then the characters of its operands in order, then the suffix once, and
\* nothing to another stream; a logger with a suffix and no prefix has
\* written what the undecorated logger writes for the same statement
\* followed by a statement that streams the suffix as a value.  A logger
\* that does not pass has written nothing.
C31_AttributeTokensDecorated ==
    pc = "attributed"
    => IF can_log(obj[orig])
       THEN /\ Delta(Out) = Pre \o FlatOperands(toks) \o Suf
            /\ \A s \in Streams \ {Out} : Delta(s) = << >>
            /\ (Pre = << >> /\ Suf # << >>)
               => Delta(Out) =
                    attr_statement(Undecorated(obj[orig]), toks)[Out]
                    \o attr_statement(Undecorated(obj[orig]),
                                      << ValueTok(obj[orig].m_append) >>)[Out]
       ELSE Silent

C31_Witness ==
    /\ pc = "attributed" /\ orig = error /\ can_log(obj[error])
    /\ obj[error].m_prepend = "a" /\ obj[error].m_append = "b"
    /\ toks = << ValueTok("1"), ColorTokOf(color_fg(green, FALSE)), ValueTok("2") >>
    /\ Delta("A") = << "a", "1", ESC, "[", "3", "2", "m", "2", "b" >>

\* C32: a finished passing statement on a logger without prefix and without
\* suffix has added to the stream of the logger exactly its tokens, in the
\* order they were streamed, each once, and nothing to another stream.
C32_TokensForwardedInOrder ==
    (pc = "done" /\ Passing /\ Pre = << >> /\ Suf = << >>)
    => /\ Delta(Out) = Flat(toks)
       /\ \A s \in Streams \ {Out} : Delta(s) = << >>

C32_Witness ==
    /\ pc = "done" /\ Passing /\ cond = "none" /\ orig = error
    /\ obj[error].m_prepend = NullTxt /\ obj[error].m_append = NullTxt
    /\ toks = << "1", "2" >>
    /\ Delta("A") = << "1", "2" >>

\* C33: while two threads run statements qlog::error( c ) << x, a temporary
\* that has been registered and not yet destroyed is in the registry, no
\* object is in it twice, no unregister_me fails its assertion or is
\* undefined, and when both statements have finished the registry holds
\* exactly the objects that were live before, the static logger.
C33_RegistryConsistentUnderThreads ==
    /\ pc \notin {"assert_failed", "crashed"}
    /\ pc = "calls"
       => /\ \A t \in Threads :
                thr[t].n \in {2, 3, 4} => ThreadTmp(t) \in Registered(error)
          /\ Len(m_loggers[error].vec) = Cardinality(Registered(error))
    /\ pc = "joined" => m_loggers[error] = [alloc |-> TRUE, vec |-> << error >>]

\* C34: in qdiilog3.hpp, after the member set_output( s ) has been called on
\* one logger object of level L, every registered object of level L has the
\* sink s, so that a second, independently constructed object of L writes
\* its statements to s.
C34_SetOutputReachesEveryInstance ==
    last.op = "q3_set_output"
    => \A j \in Registered(last.lvl) : obj[j].m_output = last.arg

\* C35: in the Logger of unittests2.cpp a statement `log << t1 << ...` writes
\* its tokens to the sink iff the logger has a sink and its level is at
\* least as severe as the filter level (filter warning: warning and error
\* write; filter error: only error; filter debug: all five).
C35_ForwardsIffLevelAtLeastFilter ==
    pc = "done" /\ cond = "none"
    => ((sink # base)
        <=> (obj[orig].m_output # NoSink /\ obj[orig].m_level >= loglevel))
====
